---- MODULE Spec2Model ----
(***************************************************************************)
(* Model of the Peak MicroPulse driver (PeakHandler), its transport and    *)
(* the instrument it talks to.                                             *)
(*                                                                         *)
(*  - the protocol codec: dataOutpoutFormatReader and parseResponse work   *)
(*    on byte sequences exactly as the C++ does (0-based indices of the    *)
(*    source are 1-based positions of a TLA+ sequence);                    *)
(*  - the acquisition engine: startAsyncAcquisition, stopAsyncAcquisition, *)
(*    getLatestData, initiateAsyncRequest, onReceiveComplete and           *)
(*    sendDataRequest, one action per atomic step of each;                 *)
(*  - the transport (BoostSocketWrappers::TcpClientBoost), which is not    *)
(*    part of the sources: modelled from section 4.2 of the specification; *)
(*  - the instrument: the command handling of MockPeakHardware, with       *)
(*    fault injection (an instrument-error message in place of a packet,   *)
(*    a corrupted byte, a failed reset);                                   *)
(*  - the set-up: readMpsFile with its setters on lines of characters,     *)
(*    sendReset and sendMpsConfiguration.                                  *)
(*                                                                         *)
(* Spec is the acquisition engine; CodecSpec runs sendDataRequest on       *)
(* corrupted packets and on packets of chosen sample values, ConfigSpec    *)
(* runs readMpsFile, once or again, on every small file, SessionSpec runs  *)
(* sendReset and sendMpsConfiguration.                                     *)
(***************************************************************************)
EXTENDS Integers, Sequences, FiniteSets, TLC

VARIABLES
    \* ---- PeakHandler: the configuration file, its command stream and the
    \* ---- gate of the last GATS line (peak_handler.h:125-130)
    mps_file_, commands_, gate_start_, gate_end_,
    \* ---- sendReset: its argument and its local attempts
    digitisation_rate, attempts,
    \* ---- set-up commands on their way to the instrument, the instrument's
    \* ---- read_buffer_ and the lines it has handled
    tx, read_buffer_, handled,
    \* ---- PeakHandler: framing parameters (peak_handler.h:128-136)
    dof_, ascan_length_, num_a_scans_, individual_ascan_obs_length_, packet_length_,
    \* ---- PeakHandler: frames and async members (peak_handler.h:113, 139-144)
    ltpa_data_, ready_buffer_, data_ready_, acquiring_, data_ready_cb_,
    \* ---- threads: the owner, the transport's I/O thread, the consumers
    owner_pc, io_pc, io_cur, consumer_pc,
    \* ---- transport: I/O loop, posted receives, completions not yet run, socket
    io_running, rx_ops, handlers, rxbuf,
    \* ---- network and instrument
    cmd_wire, wire, pending_cals_count_, timer_armed,
    \* ---- what the run has used of the model's bounds
    used

\* ------------------------------------------------------------------------
\* Bounds of the model
\* ------------------------------------------------------------------------

\* Consumer threads polling getLatestData concurrently.
NumConsumers == 2

\* Acquisition cycles (startAsyncAcquisition calls that start one) in a run.
MaxStarts == 2

\* CALS 1 requests unanswered plus packets answered and not yet read that the
\* connection may hold at once.
MaxInFlight == 2

\* Faulty packets the instrument sends in a run.
MaxFaults == 1

\* Bytes of the first TCP segment of a packet that arrives in two pieces.
SegmentLen == 4

\* Largest ascan_length and num_a_scans of the framings the codec is run on.
MaxAscanLength == 2
MaxNumAScans == 2

\* Lines of the longest configuration file.
MaxLines == 3

\* Lines of the longest configuration file sent to the instrument.
MaxSessionLines == 2

\* ------------------------------------------------------------------------
\* Program constants
\* ------------------------------------------------------------------------

sub_header_size_ == 8

\* sendReset: int max_attempts(2); the loop runs while attempts <= max_attempts.
max_attempts == 2

\* sendReset: receive(32), and the first byte of a successful response ('#').
ResetResponseLen == 32
ResetSuccess == 35

\* MockPeakHardware::Config: system_type and the digitisation rates.
system_type == 48
default_dig_rate == 50
actual_dig_rate == 50

\* Sub-frame markers (peak_handler.h:18-24, peak_handler.cpp:280-321).
MarkerAscan == 26
MarkerNormalIndications == 28
MarkerGainReducedIndications == 29
MarkerLwlCouplingFailure == 30
MarkerError == 6

\* ------------------------------------------------------------------------
\* Helpers
\* ------------------------------------------------------------------------

Abs(x) == IF x < 0 THEN -x ELSE x

RECURSIVE SeqMin(_)
SeqMin(s) ==
    IF Len(s) = 1 THEN s[1]
    ELSE LET m == SeqMin(Tail(s)) IN IF s[1] < m THEN s[1] ELSE m

RECURSIVE SeqMax(_)
SeqMax(s) ==
    IF Len(s) = 1 THEN s[1]
    ELSE LET m == SeqMax(Tail(s)) IN IF s[1] > m THEN s[1] ELSE m

\* packet[i] of the C++ (0-based). A read past the end of the vector is
\* undefined behaviour: the message then carries oob = TRUE. Such a message
\* has count > Len(packet), so parseResponse rejects it on the count check
\* and the bytes read there (0 here) reach no frame.
ByteAt(packet, i) == IF i < Len(packet) THEN packet[i + 1] ELSE 0

\* ------------------------------------------------------------------------
\* Protocol codec
\* ------------------------------------------------------------------------

\* The 8-bit loop: for (i = sub_header_size_; i < count; i++) amps += packet[i] - 128
\* The loop does not stop at the end of the slice; the samples it reads past
\* it are indeterminate and left out here (the message then has oob = TRUE).
RECURSIVE Amps8(_, _, _)
Amps8(packet, i, count) ==
    IF i < count /\ i < Len(packet)
    THEN <<ByteAt(packet, i) - 128>> \o Amps8(packet, i + 1, count)
    ELSE <<>>

\* The 16-bit loop taking the first byte of a sample as its high byte.
RECURSIVE Amps16BigEndian(_, _, _)
Amps16BigEndian(packet, i, count) ==
    IF i < count /\ i + 1 < Len(packet)
    THEN <<(ByteAt(packet, i) * 256 + ByteAt(packet, i + 1)) - 32768>>
             \o Amps16BigEndian(packet, i + 2, count)
    ELSE <<>>

\* The 16-bit loop: while (i < count) { amps += (packet[i+1] << 8 | packet[i]) - 32768; i += 2 }
\* Samples read past the slice, whole or in part, are left out as above.
RECURSIVE Amps16(_, _, _)
Amps16(packet, i, count) ==
    IF i < count /\ i + 1 < Len(packet)
    THEN <<(ByteAt(packet, i + 1) * 256 + ByteAt(packet, i)) - 32768>>
             \o Amps16(packet, i + 2, count)
    ELSE <<>>

\* The count taken from two bytes of the header only.
HeaderCountTwoBytes(packet) ==
    ByteAt(packet, 2) * 256 + ByteAt(packet, 1)

\* count = packet[3] << 16 | packet[2] << 8 | packet[1]
HeaderCount(packet) ==
    ByteAt(packet, 3) * 65536 + ByteAt(packet, 2) * 256 + ByteAt(packet, 1)

HeaderTestNo(packet) == ByteAt(packet, 5) * 256 + ByteAt(packet, 4)

\* dataOutpoutFormatReader: the marker selects the kind; for ascan and for an
\* unknown marker the 8-byte header is decoded; for the known non-ascan
\* markers only the kind is set (count, testNo, dof and channel stay
\* uninitialised in the C++ and are absent here).
dataOutpoutFormatReader(packet) ==
    LET marker == packet[1]
        count == HeaderCount(packet)
        hdr(kind) == [header |-> kind, count |-> count, testNo |-> HeaderTestNo(packet),
                      dof |-> ByteAt(packet, 6), channel |-> ByteAt(packet, 7)]
    IN  IF marker = MarkerAscan
        THEN [header |-> hdr("ascan"),
              amps |-> IF ByteAt(packet, 6) = 1
                       THEN Amps8(packet, sub_header_size_, count)
                       ELSE IF ByteAt(packet, 6) = 4
                       THEN Amps16(packet, sub_header_size_, count)
                       ELSE <<>>,
              oob |-> IF ByteAt(packet, 6) = 1 THEN count > Len(packet)
                      ELSE IF ByteAt(packet, 6) = 4
                      THEN /\ count > sub_header_size_
                           /\ (IF (count - sub_header_size_) % 2 = 0
                               THEN count ELSE count + 1) > Len(packet)
                      ELSE FALSE]
        ELSE IF marker = MarkerNormalIndications
        THEN [header |-> [header |-> "normal_indications"], amps |-> <<>>, oob |-> FALSE]
        ELSE IF marker = MarkerGainReducedIndications
        THEN [header |-> [header |-> "gain_reduced_indications"], amps |-> <<>>, oob |-> FALSE]
        ELSE IF marker = MarkerLwlCouplingFailure
        THEN [header |-> [header |-> "lwl_coupling_failure"], amps |-> <<>>, oob |-> FALSE]
        ELSE IF marker = MarkerError
        THEN [header |-> [header |-> "error"], amps |-> <<>>, oob |-> FALSE]
        ELSE [header |-> hdr("error"), amps |-> <<>>, oob |-> FALSE]

\* calcPacketLength that takes one byte per sample in the 16-bit format too.
calcPacketLengthOneBytePerSample(dof, ascan_length, num_a_scans, prev) ==
    LET individual == IF dof = 1 THEN ascan_length + sub_header_size_
                      ELSE IF dof = 4 THEN ascan_length + sub_header_size_
                      ELSE prev
    IN  [individual_ascan_obs_length |-> individual,
         packet_length |-> num_a_scans * individual]

\* calcPacketLength: the per-sub-frame length for DOF 1 and 4; for any other
\* DOF individual_ascan_obs_length_ keeps its previous value (prev).
calcPacketLength(dof, ascan_length, num_a_scans, prev) ==
    LET individual == IF dof = 1 THEN ascan_length + sub_header_size_
                      ELSE IF dof = 4 THEN 2 * ascan_length + sub_header_size_
                      ELSE prev
    IN  [individual_ascan_obs_length |-> individual,
         packet_length |-> num_a_scans * individual]

\* The while loop of parseResponse taking the largest sample of a sub-frame
\* as its amplitude, whatever its smallest one.
RECURSIVE ParseLoopMaxOnly(_, _, _, _)
ParseLoopMaxOnly(response, curr_ascan_i, data, data_max_amp) ==
    IF curr_ascan_i < packet_length_
    THEN LET ascan_bytes == SubSeq(response, curr_ascan_i + 1,
                                   curr_ascan_i + individual_ascan_obs_length_)
             message == dataOutpoutFormatReader(ascan_bytes)
         IN  IF message.header.header = "ascan"
             THEN IF message.header.dof # dof_
                  THEN [data |-> data, data_max_amp |-> data_max_amp, oob |-> message.oob]
                  ELSE IF message.header.count # individual_ascan_obs_length_
                  THEN [data |-> data, data_max_amp |-> data_max_amp, oob |-> message.oob]
                  ELSE LET curr_ascan_max_amp == Abs(SeqMax(message.amps))
                       IN  ParseLoopMaxOnly(response,
                                            curr_ascan_i + message.header.count,
                                            Append(data, [header |-> message.header,
                                                          amps |-> message.amps]),
                                            IF data_max_amp < curr_ascan_max_amp
                                            THEN curr_ascan_max_amp ELSE data_max_amp)
             ELSE [data |-> data, data_max_amp |-> data_max_amp, oob |-> message.oob]
    ELSE [data |-> data, data_max_amp |-> data_max_amp, oob |-> FALSE]

\* The while loop of parseResponse from cursor curr_ascan_i on: data is the
\* sub-frames accepted so far, data_max_amp the running maximum. The loop
\* breaks at the first sub-frame that is not an ascan, or whose header dof or
\* count does not match. oob: decoding that sub-frame read past its slice
\* (the decoding comes before the validation).
RECURSIVE ParseLoop(_, _, _, _)
ParseLoop(response, curr_ascan_i, data, data_max_amp) ==
    IF curr_ascan_i < packet_length_
    THEN LET ascan_bytes == SubSeq(response, curr_ascan_i + 1,
                                   curr_ascan_i + individual_ascan_obs_length_)
             message == dataOutpoutFormatReader(ascan_bytes)
         IN  IF message.header.header = "ascan"
             THEN IF message.header.dof # dof_
                  THEN [data |-> data, data_max_amp |-> data_max_amp, oob |-> message.oob]
                  ELSE IF message.header.count # individual_ascan_obs_length_
                  THEN [data |-> data, data_max_amp |-> data_max_amp, oob |-> message.oob]
                  ELSE LET curr_ascan_min_amp == SeqMin(message.amps)
                           curr_ascan_max_amp ==
                               IF Abs(curr_ascan_min_amp) > Abs(SeqMax(message.amps))
                               THEN Abs(curr_ascan_min_amp)
                               ELSE Abs(SeqMax(message.amps))
                       IN  ParseLoop(response,
                                     curr_ascan_i + message.header.count,
                                     Append(data, [header |-> message.header,
                                                   amps |-> message.amps]),
                                     IF data_max_amp < curr_ascan_max_amp
                                     THEN curr_ascan_max_amp ELSE data_max_amp)
             ELSE [data |-> data, data_max_amp |-> data_max_amp, oob |-> message.oob]
    ELSE [data |-> data, data_max_amp |-> data_max_amp, oob |-> FALSE]

\* parseResponse that assigns a freshly constructed frame to output on
\* success instead of replacing two of its fields.
parseResponseFreshFrame(response, output) ==
    LET r == ParseLoop(response, 0, <<>>, 0)
    IN  IF Len(r.data) = num_a_scans_
        THEN [valid |-> TRUE,
              output |-> [digitisation_rate |-> 0, ascan_length |-> 0, num_a_scans |-> 0,
                          n_elements |-> 0, ascans |-> r.data,
                          max_amplitude |-> r.data_max_amp],
              oob |-> r.oob]
        ELSE [valid |-> FALSE, output |-> output, oob |-> r.oob]

\* parseResponse(response, output): valid is the return value, output the
\* frame after the call. Only a packet with num_a_scans_ accepted sub-frames
\* writes ascans and max_amplitude. oob: the call read past the end of a
\* sub-frame's slice, which is undefined behaviour: it may return as
\* described here (the bytes read there reach no frame) or end the process.
parseResponse(response, output) ==
    LET r == ParseLoop(response, 0, <<>>, 0)
    IN  IF Len(r.data) = num_a_scans_
        THEN [valid |-> TRUE,
              output |-> [output EXCEPT !.ascans = r.data,
                                        !.max_amplitude = r.data_max_amp],
              oob |-> r.oob]
        ELSE [valid |-> FALSE, output |-> output, oob |-> r.oob]

\* ------------------------------------------------------------------------
\* Text: a line is a sequence of characters
\* ------------------------------------------------------------------------

Digits == <<"0", "1", "2", "3", "4", "5", "6", "7", "8", "9">>

IsDigit(c) == \E d \in 1..10 : Digits[d] = c

DigitValue(c) == (CHOOSE d \in 1..10 : Digits[d] = c) - 1

\* line.rfind(prefix, 0) == 0: the line begins with prefix.
StartsWith(line, prefix) ==
    /\ Len(line) >= Len(prefix)
    /\ SubSeq(line, 1, Len(prefix)) = prefix

\* Position of the first space of s, 0 when it has none.
FirstSpace(s) ==
    IF \E i \in 1..Len(s) : s[i] = " "
    THEN CHOOSE i \in 1..Len(s) : s[i] = " " /\ \A j \in 1..(i - 1) : s[j] # " "
    ELSE 0

\* processMpsLine: while (getline(command_stream, tmp, ' ')) args.push_back(tmp).
\* Each getline takes the characters up to the next space and consumes the
\* space; it fails, ending the loop, once nothing is left.
RECURSIVE processMpsLine(_)
processMpsLine(command) ==
    IF command = <<>>
    THEN <<>>
    ELSE LET k == FirstSpace(command)
         IN  IF k = 0
             THEN <<command>>
             ELSE <<SubSeq(command, 1, k - 1)>>
                      \o processMpsLine(SubSeq(command, k + 1, Len(command)))

\* The value of the longest run of digits s begins with.
RECURSIVE DigitRun(_, _)
DigitRun(s, acc) ==
    IF s # <<>> /\ IsDigit(Head(s))
    THEN DigitRun(Tail(s), 10 * acc + DigitValue(Head(s)))
    ELSE acc

RECURSIVE SkipSpaces(_)
SkipSpaces(s) == IF s # <<>> /\ Head(s) = " " THEN SkipSpaces(Tail(s)) ELSE s

\* std::stoi(str): leading whitespace is skipped, then an optional sign and
\* the digits that follow are converted; what comes after them is ignored.
\* ok = FALSE: no digit there, std::invalid_argument is thrown.
stoi(str) ==
    LET t == SkipSpaces(str)
        signed == t # <<>> /\ Head(t) \in {"-", "+"}
        body == IF signed THEN Tail(t) ELSE t
        magnitude == DigitRun(body, 0)
    IN  [ok |-> body # <<>> /\ IsDigit(Head(body)),
         value |-> IF signed /\ Head(t) = "-" THEN -magnitude ELSE magnitude]

\* ------------------------------------------------------------------------
\* The configuration file
\* ------------------------------------------------------------------------

KeywordDof == <<"D", "O", "F">>
KeywordGats == <<"G", "A", "T", "S">>
KeywordPav == <<"P", "A", "V">>
KeywordSwp == <<"S", "W", "P">>

\* Values an int member the constructor leaves uninitialised may hold, and
\* values a read past the end of args may produce.
Indeterminate == {0, 3}

\* What args[i] does when args has no element i (undefined behaviour): the
\* process ends, std::stoi throws on what it finds there, or it finds a number.
UbOutcomes ==
    [status : {"crashed", "threw"}, value : {0}] \cup [status : {"ok"}, value : Indeterminate]

\* std::stoi(args[i]) (i from 0): status "ok" with the value, "threw" when
\* stoi rejects the token, and outcome u when args has no element i.
ArgValue(args, i, u) ==
    IF i < Len(args)
    THEN LET v == stoi(args[i + 1])
         IN  [status |-> IF v.ok THEN "ok" ELSE "threw", value |-> v.value]
    ELSE u

\* setDof: dof_ = stoi(args[1]). h holds the members readMpsFile works on.
setDof(h, command, u) ==
    LET a1 == ArgValue(processMpsLine(command), 1, u)
    IN  IF a1.status # "ok"
        THEN [h EXCEPT !.status = a1.status]
        ELSE [h EXCEPT !.dof_ = a1.value]

\* setGates: gate_start_ = stoi(args[2]); gate_end_ = stoi(args[3]);
\* ascan_length_ = gate_end_ - gate_start_, copied to ltpa_data_.
setGates(h, command, u) ==
    LET args == processMpsLine(command)
        a2 == ArgValue(args, 2, u)
        a3 == ArgValue(args, 3, u)
    IN  IF a2.status # "ok"
        THEN [h EXCEPT !.status = a2.status]
        ELSE IF a3.status # "ok"
        THEN [h EXCEPT !.gate_start_ = a2.value, !.status = a3.status]
        ELSE [h EXCEPT !.gate_start_ = a2.value,
                       !.gate_end_ = a3.value,
                       !.ascan_length_ = a3.value - a2.value,
                       !.ltpa_data_.ascan_length = a3.value - a2.value]

\* setNumAScans: for a PAV line num_a_scans_ = stoi(args[2]), for a SWP line
\* stoi(args[4]) - stoi(args[2]) + 1; then ltpa_data_.num_a_scans = num_a_scans_.
setNumAScans(h, command, u) ==
    LET args == processMpsLine(command)
        a2 == ArgValue(args, 2, u)
        a4 == ArgValue(args, 4, u)
    IN  IF StartsWith(command, KeywordPav)
        THEN IF a2.status # "ok"
             THEN [h EXCEPT !.status = a2.status]
             ELSE [h EXCEPT !.num_a_scans_ = a2.value, !.ltpa_data_.num_a_scans = a2.value]
        ELSE IF StartsWith(command, KeywordSwp)
        THEN IF a4.status # "ok"
             THEN [h EXCEPT !.status = a4.status]
             ELSE IF a2.status # "ok"
             THEN [h EXCEPT !.status = a2.status]
             ELSE [h EXCEPT !.num_a_scans_ = a4.value - a2.value + 1,
                            !.ltpa_data_.num_a_scans = a4.value - a2.value + 1]
        ELSE [h EXCEPT !.ltpa_data_.num_a_scans = h.num_a_scans_]

\* The body of the while loop of readMpsFile that keeps only the lines it
\* recognises as directives.
readMpsFileBodyDirectivesOnly(h, line, u) ==
    IF StartsWith(line, KeywordDof)
    THEN setDof([h EXCEPT !.commands_ = Append(@, line)], line, u)
    ELSE IF StartsWith(line, KeywordGats)
    THEN setGates([h EXCEPT !.commands_ = Append(@, line)], line, u)
    ELSE IF StartsWith(line, KeywordSwp)
    THEN setNumAScans([h EXCEPT !.commands_ = Append(@, line)], line, u)
    ELSE h

\* The body of the while loop of readMpsFile: commands_.push_back(line),
\* then the setter of the keyword the line begins with, if any.
readMpsFileBody(h, line, u) ==
    LET pushed == [h EXCEPT !.commands_ = Append(@, line)]
    IN  IF StartsWith(line, KeywordDof)
        THEN setDof(pushed, line, u)
        ELSE IF StartsWith(line, KeywordGats)
        THEN setGates(pushed, line, u)
        ELSE IF StartsWith(line, KeywordSwp)
        THEN setNumAScans(pushed, line, u)
        ELSE pushed

\* while (getline(file, line)) ...: the lines in order, until one throws or
\* ends the process.
RECURSIVE readMpsFileLoop(_, _, _)
readMpsFileLoop(lines, h, u) ==
    IF lines = <<>> \/ h.status # "ok"
    THEN h
    ELSE readMpsFileLoop(Tail(lines), readMpsFileBody(h, Head(lines), u), u)

\* ------------------------------------------------------------------------
\* The instrument's packets (MockPeakHardware)
\* ------------------------------------------------------------------------

\* The instrument is configured like the handler (the tests set both alike).
config_ == [dof |-> dof_, ascan_length |-> ascan_length_, num_a_scans |-> num_a_scans_]

\* msg[8 + i] = amp & 0xFF
Encode8(amp) == <<amp % 256>>

\* A 16-bit sample written high byte first.
Encode16BigEndian(amp) == <<(amp \div 256) % 256, amp % 256>>

\* msg[offset] = amp & 0xFF; msg[offset + 1] = (amp >> 8) & 0xFF
Encode16(amp) == <<amp % 256, (amp \div 256) % 256>>

RECURSIVE RampBytes(_, _)
RampBytes(ascan_index, i) ==
    IF i < config_.ascan_length
    THEN LET amp8 == 128 + ((ascan_index * 7 + i) % 100)
             amp16 == 32768 + ((ascan_index * 7 + i) % 1000)
         IN  (IF config_.dof = 1 THEN Encode8(amp8)
              ELSE IF config_.dof = 4 THEN Encode16(amp16)
              ELSE <<>>)
             \o RampBytes(ascan_index, i + 1)
    ELSE <<>>

buildAscanMessage(ascan_index) ==
    LET data_bytes == IF config_.dof = 4 THEN 2 * config_.ascan_length
                      ELSE config_.ascan_length
        count == 8 + data_bytes
        testNo == ascan_index + 1
        payload == RampBytes(ascan_index, 0)
    IN  <<MarkerAscan, count % 256, (count \div 256) % 256, (count \div 65536) % 256,
          testNo % 256, (testNo \div 256) % 256, config_.dof, ascan_index % 256>>
        \o payload
        \o [k \in 1..(data_bytes - Len(payload)) |-> 0]

RECURSIVE PacketFrom(_)
PacketFrom(i) ==
    IF i < config_.num_a_scans THEN buildAscanMessage(i) \o PacketFrom(i + 1) ELSE <<>>

buildDataPacket == PacketFrom(0)

\* The payload of a sub-frame all of whose samples measure v: the zero
\* point (128, 32768) plus v, written as the ramp is.
RECURSIVE SampleBytes(_, _)
SampleBytes(v, i) ==
    IF i < config_.ascan_length
    THEN (IF config_.dof = 1 THEN Encode8(128 + v)
          ELSE IF config_.dof = 4 THEN Encode16(32768 + v)
          ELSE <<>>)
         \o SampleBytes(v, i + 1)
    ELSE <<>>

\* The packet of an instrument that measures v at every sample: the header
\* of each message as buildAscanMessage writes it, then the samples.
RECURSIVE SamplePacketFrom(_, _)
SamplePacketFrom(v, i) ==
    IF i < config_.num_a_scans
    THEN SubSeq(buildAscanMessage(i), 1, 8) \o SampleBytes(v, 0) \o SamplePacketFrom(v, i + 1)
    ELSE <<>>

SamplePacket(v) == SamplePacketFrom(v, 0)

\* Fault injection: the instrument answers with an error message (marker
\* 0x06) in the first sub-frame of an otherwise well-formed packet.
FaultyPacket == [buildDataPacket EXCEPT ![1] = MarkerError]

\* ------------------------------------------------------------------------
\* State
\* ------------------------------------------------------------------------

setup == <<mps_file_, commands_, gate_start_, gate_end_, digitisation_rate, attempts,
           tx, read_buffer_, handled>>
framing == <<dof_, ascan_length_, num_a_scans_, individual_ascan_obs_length_, packet_length_>>
handler == <<ltpa_data_, ready_buffer_, data_ready_, acquiring_, data_ready_cb_>>
threads == <<owner_pc, io_pc, io_cur, consumer_pc>>
transport == <<io_running, rx_ops, handlers, rxbuf>>
network == <<cmd_wire, wire, pending_cals_count_, timer_armed>>
vars == <<setup, framing, handler, threads, transport, network, used>>

Consumers == 1..NumConsumers

\* DataReadyCallback values: nullptr, or a callback of the consumer.
Callbacks == {"null", "cb"}

\* Framing parameters a configuration file can set (DOF, GATS, SWP lines).
FramingConfigs ==
    { [dof |-> 1, ascan_length |-> 1, num_a_scans |-> 2] }

\* OutputFormat. n_elements stands for the eleven geometry fields, which
\* setReconstructionConfiguration sets and nothing else writes.
OutputFormat(rate, len, num, n_elements, ascans, max_amplitude) ==
    [digitisation_rate |-> rate, ascan_length |-> len, num_a_scans |-> num,
     n_elements |-> n_elements, ascans |-> ascans, max_amplitude |-> max_amplitude]

Idle == [pc |-> "idle", cb |-> "null"]

\* io_cur while no completion handler runs.
NoCompletion == [valid |-> FALSE, stale |-> FALSE, ec |-> FALSE]

\* Framings the codec is run on: both formats, every length up to the bounds.
CodecConfigs ==
    { [dof |-> d, ascan_length |-> l, num_a_scans |-> n] :
          d \in {1, 4}, l \in 1..MaxAscanLength, n \in 1..MaxNumAScans }

\* "DOF d", "GATS 1 0 l", "SWP 1 1 - n": the file that configures framing c.
MpsFileFor(c) ==
    [is_open |-> TRUE,
     lines |-> << KeywordDof \o <<" ", Digits[c.dof + 1]>>,
                  KeywordGats \o <<" ", "1", " ", "0", " ", Digits[c.ascan_length + 1]>>,
                  KeywordSwp \o <<" ", "1", " ", "1", " ", "-", " ", Digits[c.num_a_scans + 1]>> >>]

\* sendReset's command for a rate: "RST", or "RST " and the rate.
RstCommand(rate) ==
    <<"R", "S", "T">> \o
        (IF rate = 10 THEN <<" ", "1", "0">>
         ELSE IF rate = 25 THEN <<" ", "2", "5">>
         ELSE IF rate = 50 THEN <<" ", "5", "0">>
         ELSE IF rate = 100 THEN <<" ", "1", "0", "0">>
         ELSE <<>>)

\* The acquisition engine, the transport and the instrument before any
\* acquisition. ready_buffer_ is default-initialised; nothing reads it
\* before startAsyncAcquisition overwrites it.
EngineInit ==
    /\ ready_buffer_ = OutputFormat(0, 0, 0, 0, <<>>, 0)
    /\ data_ready_ = FALSE
    /\ acquiring_ = FALSE
    /\ data_ready_cb_ = "null"
    /\ io_pc = "idle"
    /\ io_cur = NoCompletion
    /\ consumer_pc = [c \in Consumers |-> "idle"]
    /\ io_running = FALSE
    /\ rx_ops = <<>>
    /\ handlers = <<>>
    /\ rxbuf = <<>>
    /\ cmd_wire = 0
    /\ wire = <<>>
    /\ pending_cals_count_ = 0
    /\ timer_armed = FALSE
    /\ used = [starts |-> 0, faults |-> 0, bad_resets |-> 0, published |-> FALSE]

\* The handler after construction, setReconstructionConfiguration,
\* readMpsFile, connect, sendReset(50) and sendMpsConfiguration.
InitFrom(configs) ==
    /\ \E c \in configs :
          /\ mps_file_ = MpsFileFor(c)
          /\ commands_ = MpsFileFor(c).lines
          /\ gate_start_ = 0
          /\ gate_end_ = c.ascan_length
          /\ handled = <<RstCommand(50)>> \o MpsFileFor(c).lines
          /\ dof_ = c.dof
          /\ ascan_length_ = c.ascan_length
          /\ num_a_scans_ = c.num_a_scans
          /\ individual_ascan_obs_length_ =
                 calcPacketLength(c.dof, c.ascan_length, c.num_a_scans, 0).individual_ascan_obs_length
          /\ packet_length_ =
                 calcPacketLength(c.dof, c.ascan_length, c.num_a_scans, 0).packet_length
          /\ ltpa_data_ = OutputFormat(50, c.ascan_length, c.num_a_scans, 128, <<>>, 0)
    /\ digitisation_rate = 50
    /\ attempts = 0
    /\ tx = <<>>
    /\ read_buffer_ = <<>>
    /\ owner_pc = Idle
    /\ EngineInit

Init == InitFrom(FramingConfigs)

\* ------------------------------------------------------------------------
\* Requests and the pipeline
\* ------------------------------------------------------------------------

RECURSIVE TotalLen(_)
TotalLen(segments) ==
    IF segments = <<>> THEN 0 ELSE Len(Head(segments)) + TotalLen(Tail(segments))

\* Requests unanswered plus packets (or parts of them) not yet read.
InFlight ==
    cmd_wire + pending_cals_count_
        + ((TotalLen(wire) + Len(rxbuf) + packet_length_ - 1) \div packet_length_)

\* The connection has room for another CALS 1.
CanSend == InFlight < MaxInFlight

\* sendCommand("CALS 1"): one more data request on its way to the instrument.
sendCommandCals(n) == n + 1

\* TcpClientBoost::asyncReceive(packet_length_, completion): one more receive
\* posted on the I/O loop. stale is a ghost tag: the receive was armed in an
\* acquisition cycle that has since been stopped and restarted.
asyncReceive(ops) == Append(ops, [stale |-> FALSE])

\* initiateAsyncRequest: CALS 1, then the receive of the answer.
initiateAsyncRequest ==
    /\ cmd_wire' = sendCommandCals(cmd_wire)
    /\ rx_ops' = asyncReceive(rx_ops)

MarkStale(q) == [i \in 1..Len(q) |-> [q[i] EXCEPT !.stale = TRUE]]

\* ------------------------------------------------------------------------
\* The owner thread: startAsyncAcquisition
\* ------------------------------------------------------------------------

\* The owner calls startAsyncAcquisition(on_data_ready).
StartCall(cb) ==
    /\ owner_pc.pc = "idle"
    /\ acquiring_ \/ used.starts < MaxStarts
    /\ owner_pc' = [pc |-> "start", cb |-> cb]
    /\ UNCHANGED <<setup, framing, handler, io_pc, io_cur, consumer_pc, transport, network, used>>

\* startAsyncAcquisition without its first statement, if (acquiring_) return.
StartCheckUnguarded ==
    /\ owner_pc.pc = "start"
    /\ owner_pc' = [owner_pc EXCEPT !.pc = "start_flags"]
    /\ ready_buffer_' = ltpa_data_
    /\ used' = [used EXCEPT !.published = FALSE]
    /\ UNCHANGED <<setup, framing, ltpa_data_, data_ready_, acquiring_, data_ready_cb_,
                   io_pc, io_cur, consumer_pc, transport, network>>

\* if (acquiring_) return; else, under data_mutex_, ready_buffer_ = ltpa_data_.
\* used.published records whether the slot holds what onReceiveComplete
\* published or what startAsyncAcquisition copied into it.
StartCheck ==
    /\ owner_pc.pc = "start"
    /\ IF acquiring_
       THEN /\ owner_pc' = Idle
            /\ UNCHANGED <<ready_buffer_, used>>
       ELSE /\ owner_pc' = [owner_pc EXCEPT !.pc = "start_flags"]
            /\ ready_buffer_' = ltpa_data_
            /\ used' = [used EXCEPT !.published = FALSE]
    /\ UNCHANGED <<setup, framing, ltpa_data_, data_ready_, acquiring_, data_ready_cb_,
                   io_pc, io_cur, consumer_pc, transport, network>>

\* data_ready_cb_ = on_data_ready; data_ready_ = false; acquiring_ = true;
\* ltpa_client_.startIoThread(). Completions still queued from the cycle
\* before are stale from here on.
StartFlags ==
    /\ owner_pc.pc = "start_flags"
    /\ data_ready_cb_' = owner_pc.cb
    /\ data_ready_' = FALSE
    /\ acquiring_' = TRUE
    /\ io_running' = TRUE
    /\ handlers' = MarkStale(handlers)
    /\ rx_ops' = MarkStale(rx_ops)
    /\ owner_pc' = [owner_pc EXCEPT !.pc = "start_request"]
    /\ used' = [used EXCEPT !.starts = @ + 1]
    /\ UNCHANGED <<setup, framing, ltpa_data_, ready_buffer_, io_pc, io_cur, consumer_pc,
                   rxbuf, network>>

\* initiateAsyncRequest(), the last statement of startAsyncAcquisition.
StartRequest ==
    /\ owner_pc.pc = "start_request"
    /\ CanSend
    /\ initiateAsyncRequest
    /\ owner_pc' = Idle
    /\ UNCHANGED <<setup, framing, handler, io_pc, io_cur, consumer_pc, io_running, handlers,
                   rxbuf, wire, pending_cals_count_, timer_armed, used>>

\* ------------------------------------------------------------------------
\* The owner thread: stopAsyncAcquisition
\* ------------------------------------------------------------------------

\* stopAsyncAcquisition that also resets the freshness flag.
StopFlagClearing ==
    /\ owner_pc.pc = "idle"
    /\ acquiring_' = FALSE
    /\ data_ready_' = FALSE
    /\ owner_pc' = [pc |-> "stop_cancel", cb |-> "null"]
    /\ UNCHANGED <<setup, framing, ltpa_data_, ready_buffer_, data_ready_cb_,
                   io_pc, io_cur, consumer_pc, transport, network, used>>

\* acquiring_ = false.
StopFlag ==
    /\ owner_pc.pc = "idle"
    /\ acquiring_' = FALSE
    /\ owner_pc' = [pc |-> "stop_cancel", cb |-> "null"]
    /\ UNCHANGED <<setup, framing, ltpa_data_, ready_buffer_, data_ready_, data_ready_cb_,
                   io_pc, io_cur, consumer_pc, transport, network, used>>

\* stopIoThread, first half: the receives outstanding are cancelled; each
\* completes with an error (operation aborted), its completion queued on the
\* I/O loop.
StopCancel ==
    /\ owner_pc.pc = "stop_cancel"
    /\ handlers' = handlers \o [i \in 1..Len(rx_ops) |->
                                   [data |-> <<>>, ec |-> TRUE, stale |-> rx_ops[i].stale]]
    /\ rx_ops' = <<>>
    /\ owner_pc' = [owner_pc EXCEPT !.pc = "stop_join"]
    /\ UNCHANGED <<setup, framing, handler, io_pc, io_cur, consumer_pc, io_running, rxbuf,
                   network, used>>

\* stopIoThread, second half: the loop is stopped and the I/O thread joined
\* (a completion handler that is running finishes first), then the bytes
\* buffered in the socket are drained. Completions still queued stay queued
\* and run when the loop is started again.
StopJoin ==
    /\ owner_pc.pc = "stop_join"
    /\ io_pc = "idle"
    /\ io_running' = FALSE
    /\ rxbuf' = <<>>
    /\ owner_pc' = Idle
    /\ UNCHANGED <<setup, framing, handler, io_pc, io_cur, consumer_pc, rx_ops, handlers,
                   network, used>>

\* ------------------------------------------------------------------------
\* The owner thread: ~PeakHandler
\* ------------------------------------------------------------------------

\* A destructor that does not stop the acquisition.
DestroyCallNoStop ==
    /\ owner_pc.pc = "idle"
    /\ owner_pc' = [pc |-> "destroyed", cb |-> "null"]
    /\ UNCHANGED <<setup, framing, handler, io_pc, io_cur, consumer_pc, transport, network,
                   used>>

\* ~PeakHandler calls stopAsyncAcquisition, which clears acquiring_ first.
DestroyCall ==
    /\ owner_pc.pc = "idle"
    /\ acquiring_' = FALSE
    /\ owner_pc' = [pc |-> "dtor_cancel", cb |-> "null"]
    /\ UNCHANGED <<setup, framing, ltpa_data_, ready_buffer_, data_ready_, data_ready_cb_,
                   io_pc, io_cur, consumer_pc, transport, network, used>>

\* stopIoThread inside the destructor, first half: the receives outstanding
\* are cancelled and their completions queued.
DestroyCancel ==
    /\ owner_pc.pc = "dtor_cancel"
    /\ handlers' = handlers \o [i \in 1..Len(rx_ops) |->
                                   [data |-> <<>>, ec |-> TRUE, stale |-> rx_ops[i].stale]]
    /\ rx_ops' = <<>>
    /\ owner_pc' = [owner_pc EXCEPT !.pc = "dtor_join"]
    /\ UNCHANGED <<setup, framing, handler, io_pc, io_cur, consumer_pc, io_running, rxbuf,
                   network, used>>

\* stopIoThread inside the destructor, second half, and the destruction of
\* the members: the I/O thread is joined (a completion handler that is
\* running finishes first, and may have posted one more receive), then the
\* client is destroyed, which closes the socket and discards the receives and
\* the completions that never ran.
DestroyJoin ==
    /\ owner_pc.pc = "dtor_join"
    /\ io_pc = "idle"
    /\ io_running' = FALSE
    /\ rxbuf' = <<>>
    /\ rx_ops' = <<>>
    /\ handlers' = <<>>
    /\ owner_pc' = [pc |-> "destroyed", cb |-> "null"]
    /\ UNCHANGED <<setup, framing, handler, io_pc, io_cur, consumer_pc, network, used>>

\* ------------------------------------------------------------------------
\* The owner thread: sendDataRequest (synchronous)
\* ------------------------------------------------------------------------

\* sendDataRequest that sends its request twice.
SyncSendTwice ==
    /\ owner_pc.pc = "idle"
    /\ CanSend
    /\ cmd_wire' = sendCommandCals(sendCommandCals(cmd_wire))
    /\ owner_pc' = [pc |-> "sync_recv", cb |-> "null"]
    /\ UNCHANGED <<setup, framing, handler, io_pc, io_cur, consumer_pc, transport, wire,
                   pending_cals_count_, timer_armed, used>>

\* sendCommand("CALS 1").
SyncSend ==
    /\ owner_pc.pc = "idle"
    /\ CanSend
    /\ cmd_wire' = sendCommandCals(cmd_wire)
    /\ owner_pc' = [pc |-> "sync_recv", cb |-> "null"]
    /\ UNCHANGED <<setup, framing, handler, io_pc, io_cur, consumer_pc, transport, wire,
                   pending_cals_count_, timer_armed, used>>

\* The outcomes of a parseResponse call that returned r: it returns (FALSE),
\* or, having read out of bounds, the process ends (TRUE).
Outcomes(r) == IF r.oob THEN BOOLEAN ELSE {FALSE}

\* The process was ended by an out-of-bounds read.
Crashed == [pc |-> "crashed", cb |-> "null"]

\* sendDataRequest is about to return value.
SyncReturning(value) == [pc |-> IF value THEN "sync_true" ELSE "sync_false", cb |-> "null"]

\* ltpa_client_.receive(packet_length_) blocks until that many bytes are
\* read; then parseResponse(response, ltpa_data_), whose value is returned.
SyncReceive ==
    /\ owner_pc.pc = "sync_recv"
    /\ Len(rxbuf) >= packet_length_
    /\ LET r == parseResponse(SubSeq(rxbuf, 1, packet_length_), ltpa_data_)
       IN  \E crash \in Outcomes(r) :
               /\ ltpa_data_' = IF crash THEN ltpa_data_ ELSE r.output
               /\ owner_pc' = IF crash THEN Crashed ELSE SyncReturning(r.valid)
    /\ rxbuf' = SubSeq(rxbuf, packet_length_ + 1, Len(rxbuf))
    /\ UNCHANGED <<setup, framing, ready_buffer_, data_ready_, acquiring_, data_ready_cb_,
                   io_pc, io_cur, consumer_pc, io_running, rx_ops, handlers, network, used>>

\* sendDataRequest returns to the owner.
SyncReturn ==
    /\ owner_pc.pc \in {"sync_true", "sync_false"}
    /\ owner_pc' = Idle
    /\ UNCHANGED <<setup, framing, handler, io_pc, io_cur, consumer_pc, transport, network, used>>

\* ------------------------------------------------------------------------
\* The transport's I/O thread
\* ------------------------------------------------------------------------

\* The receive at the head of the posted ones has read packet_length_ bytes:
\* its completion is queued on the I/O loop.
RxComplete ==
    /\ io_running
    /\ rx_ops # <<>>
    /\ Len(rxbuf) >= packet_length_
    /\ handlers' = Append(handlers, [data |-> SubSeq(rxbuf, 1, packet_length_),
                                     ec |-> FALSE, stale |-> Head(rx_ops).stale])
    /\ rx_ops' = Tail(rx_ops)
    /\ rxbuf' = SubSeq(rxbuf, packet_length_ + 1, Len(rxbuf))
    /\ UNCHANGED <<setup, framing, handler, threads, io_running, network, used>>

\* onReceiveComplete that goes on to the callback without marking the slot
\* fresh.
OnReceiveCompleteFlagNotSet ==
    /\ io_running
    /\ io_pc = "idle"
    /\ handlers # <<>>
    /\ LET h == Head(handlers)
           r == parseResponse(h.data, ltpa_data_)
       IN  IF h.ec
           THEN /\ io_cur' = [valid |-> FALSE, stale |-> h.stale, ec |-> TRUE]
                /\ io_pc' = "rearm"
                /\ UNCHANGED <<ready_buffer_, data_ready_, used>>
           ELSE \E crash \in Outcomes(r) :
                    IF crash
                    THEN /\ io_pc' = "crashed"
                         /\ UNCHANGED <<io_cur, ready_buffer_, data_ready_, used>>
                    ELSE /\ io_cur' = [valid |-> r.valid, stale |-> h.stale, ec |-> FALSE]
                         /\ io_pc' = "callback"
                         /\ ready_buffer_' = r.output
                         /\ data_ready_' = data_ready_
                         /\ used' = [used EXCEPT !.published = TRUE]
    /\ handlers' = Tail(handlers)
    /\ UNCHANGED <<setup, framing, ltpa_data_, acquiring_, data_ready_cb_, owner_pc, consumer_pc,
                   io_running, rx_ops, rxbuf, network>>

\* onReceiveComplete(data, ec), up to the end of the locked block: on an
\* error nothing is parsed; otherwise parsed = ltpa_data_, valid =
\* parseResponse(data, parsed) and, under data_mutex_, ready_buffer_ = parsed
\* and data_ready_ = true. A parseResponse that read out of bounds may end
\* the process instead.
OnReceiveComplete ==
    /\ io_running
    /\ io_pc = "idle"
    /\ handlers # <<>>
    /\ LET h == Head(handlers)
           r == parseResponse(h.data, ltpa_data_)
       IN  IF h.ec
           THEN /\ io_cur' = [valid |-> FALSE, stale |-> h.stale, ec |-> TRUE]
                /\ io_pc' = "rearm"
                /\ UNCHANGED <<ready_buffer_, data_ready_, used>>
           ELSE \E crash \in Outcomes(r) :
                    IF crash
                    THEN /\ io_pc' = "crashed"
                         /\ UNCHANGED <<io_cur, ready_buffer_, data_ready_, used>>
                    ELSE /\ io_cur' = [valid |-> r.valid, stale |-> h.stale, ec |-> FALSE]
                         /\ io_pc' = "callback"
                         /\ ready_buffer_' = r.output
                         /\ data_ready_' = TRUE
                         /\ used' = [used EXCEPT !.published = TRUE]
    /\ handlers' = Tail(handlers)
    /\ UNCHANGED <<setup, framing, ltpa_data_, acquiring_, data_ready_cb_, owner_pc, consumer_pc,
                   io_running, rx_ops, rxbuf, network>>

\* if (data_ready_cb_) data_ready_cb_(valid): the callback runs on the I/O
\* thread with io_cur.valid.
OnReceiveCallback ==
    /\ io_pc = "callback"
    /\ io_pc' = "rearm"
    /\ UNCHANGED <<setup, framing, handler, owner_pc, io_cur, consumer_pc, transport, network, used>>

\* if (acquiring_): the test that ends both paths of onReceiveComplete.
OnReceiveRearmTest ==
    /\ io_pc = "rearm"
    /\ io_pc' = IF acquiring_ THEN "request" ELSE "idle"
    /\ io_cur' = IF acquiring_ THEN io_cur ELSE NoCompletion
    /\ UNCHANGED <<setup, framing, handler, owner_pc, consumer_pc, transport, network, used>>

\* initiateAsyncRequest() from the completion handler.
OnReceiveRequest ==
    /\ io_pc = "request"
    /\ CanSend
    /\ initiateAsyncRequest
    /\ io_pc' = "idle"
    /\ io_cur' = NoCompletion
    /\ UNCHANGED <<setup, framing, handler, owner_pc, consumer_pc, io_running, handlers,
                   rxbuf, wire, pending_cals_count_, timer_armed, used>>

\* ------------------------------------------------------------------------
\* Consumers: getLatestData
\* ------------------------------------------------------------------------

\* if (!data_ready_) return false; the flag is read before data_mutex_ is taken.
GetLatestDataTest(c) ==
    /\ consumer_pc[c] = "idle"
    /\ consumer_pc' = IF data_ready_ THEN [consumer_pc EXCEPT ![c] = "copy"] ELSE consumer_pc
    /\ UNCHANGED <<setup, framing, handler, owner_pc, io_pc, io_cur, transport, network, used>>

\* Under data_mutex_: out = ready_buffer_; data_ready_ = false; return true.
GetLatestDataCopy(c) ==
    /\ consumer_pc[c] = "copy"
    /\ data_ready_' = FALSE
    /\ consumer_pc' = [consumer_pc EXCEPT ![c] = "idle"]
    /\ UNCHANGED <<setup, framing, ltpa_data_, ready_buffer_, acquiring_, data_ready_cb_,
                   owner_pc, io_pc, io_cur, transport, network, used>>

\* ------------------------------------------------------------------------
\* The instrument and the network
\* ------------------------------------------------------------------------

\* handleCommand("CALS 1"): the request is counted; the response timer is
\* armed when it is the only one pending.
HandleCommandCals ==
    /\ cmd_wire > 0
    /\ cmd_wire' = cmd_wire - 1
    /\ pending_cals_count_' = pending_cals_count_ + 1
    /\ timer_armed' = IF pending_cals_count_ + 1 = 1 THEN TRUE ELSE timer_armed
    /\ UNCHANGED <<setup, framing, handler, threads, transport, wire, used>>

\* The packets the instrument may answer with.
Packets == {buildDataPacket, FaultyPacket}

\* boost::asio::write(socket_, packet): TCP carries the packet whole, or in
\* two segments, the first of SegmentLen bytes.
TcpSegments(packet, split) ==
    IF split /\ SegmentLen < Len(packet)
    THEN <<SubSeq(packet, 1, SegmentLen), SubSeq(packet, SegmentLen + 1, Len(packet))>>
    ELSE <<packet>>

\* sendQueuedResponse that sends one packet and leaves it at that, more
\* requests pending or not.
SendQueuedResponseNoReschedule(packet, split) ==
    /\ timer_armed
    /\ packet = buildDataPacket \/ used.faults < MaxFaults
    /\ IF pending_cals_count_ <= 0
       THEN /\ timer_armed' = FALSE
            /\ UNCHANGED <<wire, pending_cals_count_, used>>
       ELSE /\ wire' = wire \o TcpSegments(packet, split)
            /\ pending_cals_count_' = pending_cals_count_ - 1
            /\ timer_armed' = FALSE
            /\ used' = [used EXCEPT !.faults = IF packet = buildDataPacket THEN @ ELSE @ + 1]
    /\ UNCHANGED <<setup, framing, handler, threads, transport, cmd_wire>>

\* The response timer fires: sendQueuedResponse sends one packet and arms the
\* timer again while requests are pending.
SendQueuedResponse(packet, split) ==
    /\ timer_armed
    /\ packet = buildDataPacket \/ used.faults < MaxFaults
    /\ IF pending_cals_count_ <= 0
       THEN /\ timer_armed' = FALSE
            /\ UNCHANGED <<wire, pending_cals_count_, used>>
       ELSE /\ wire' = wire \o TcpSegments(packet, split)
            /\ pending_cals_count_' = pending_cals_count_ - 1
            /\ timer_armed' = (pending_cals_count_ - 1 > 0)
            /\ used' = [used EXCEPT !.faults = IF packet = buildDataPacket THEN @ ELSE @ + 1]
    /\ UNCHANGED <<setup, framing, handler, threads, transport, cmd_wire>>

\* The next segment on the wire reaches the socket of the handler.
Deliver ==
    /\ wire # <<>>
    /\ rxbuf' = rxbuf \o Head(wire)
    /\ wire' = Tail(wire)
    /\ UNCHANGED <<setup, framing, handler, threads, io_running, rx_ops, handlers,
                   cmd_wire, pending_cals_count_, timer_armed, used>>

\* ------------------------------------------------------------------------
\* Specification
\* ------------------------------------------------------------------------

Next ==
    \/ \E cb \in Callbacks : StartCall(cb)
    \/ StartCheck
    \/ StartFlags
    \/ StartRequest
    \/ StopFlag
    \/ StopCancel
    \/ StopJoin
    \/ SyncSend
    \/ SyncReceive
    \/ SyncReturn
    \/ RxComplete
    \/ OnReceiveComplete
    \/ OnReceiveCallback
    \/ OnReceiveRearmTest
    \/ OnReceiveRequest
    \/ \E c \in Consumers : GetLatestDataTest(c)
    \/ \E c \in Consumers : GetLatestDataCopy(c)
    \/ HandleCommandCals
    \/ \E p \in Packets, split \in BOOLEAN : SendQueuedResponse(p, split)
    \/ Deliver

Spec == Init /\ [][Next]_vars

\* ------------------------------------------------------------------------
\* Synchronous acquisition against an instrument that may corrupt a packet
\* ------------------------------------------------------------------------

\* Byte values a corrupted packet carries in place of the right one: the
\* markers, the format codes, and values below and above every count.
CorruptBytes ==
    {0, 1, 4, MarkerError, MarkerAscan, MarkerNormalIndications,
     MarkerGainReducedIndications, MarkerLwlCouplingFailure, 255}

\* The packet of the instrument with one byte replaced.
CorruptPackets ==
    { [buildDataPacket EXCEPT ![i] = v] : i \in 1..Len(buildDataPacket), v \in CorruptBytes }

\* Sample values the instrument measures: the ends of the range of each
\* format, the zero point and its neighbour, and values around a byte
\* boundary of the 16-bit word.
SampleValues ==
    IF dof_ = 1 THEN {-128, -1, 0, 127} ELSE {-32768, -1, 0, 255, 256, 32767}

\* The packets of an instrument that measures one of them at every sample.
SamplePackets == { SamplePacket(v) : v \in SampleValues }

CodecInit == InitFrom(CodecConfigs)

CodecNext ==
    \/ SyncSend
    \/ SyncReceive
    \/ SyncReturn
    \/ HandleCommandCals
    \/ \E p \in CorruptPackets \cup SamplePackets, split \in BOOLEAN :
           SendQueuedResponse(p, split)
    \/ Deliver

CodecSpec == CodecInit /\ [][CodecNext]_vars

\* ------------------------------------------------------------------------
\* Reading the configuration file
\* ------------------------------------------------------------------------

\* The lines configuration files are made of: directives with supported and
\* unsupported format codes, a gate and a sweep, a gate and a sweep that end
\* before they start, a blank line, a line no setter recognises, a line
\* that only begins like a directive, a directive whose argument is not a
\* number and a directive without its argument.
MpsLines ==
    { KeywordDof \o <<" ", "1">>,
      KeywordDof \o <<" ", "4">>,
      KeywordDof \o <<" ", "2">>,
      KeywordGats \o <<" ", "1", " ", "0", " ", "2">>,
      KeywordSwp \o <<" ", "1", " ", "1", " ", "-", " ", "2">>,
      <<>>,
      <<"T", "X", "F">>,
      KeywordDof \o <<"X", " ", "4">>,
      KeywordDof \o <<" ", "x">>,
      KeywordGats \o <<" ", "1", " ", "2", " ", "1">>,
      KeywordSwp \o <<" ", "1", " ", "2", " ", "-", " ", "1">>,
      KeywordDof }

\* The files: every sequence of at most MaxLines lines, and a file that
\* cannot be opened.
Files ==
    { [is_open |-> TRUE, lines |-> l] : l \in UNION { [1..k -> MpsLines] : k \in 0..MaxLines } }
        \cup { [is_open |-> FALSE, lines |-> <<>>] }

\* The members readMpsFile works on, as its loop finds them.
MembersAtOpen ==
    [commands_ |-> <<>>, dof_ |-> dof_, gate_start_ |-> gate_start_, gate_end_ |-> gate_end_,
     ascan_length_ |-> ascan_length_, num_a_scans_ |-> num_a_scans_,
     ltpa_data_ |-> ltpa_data_, status |-> "ok"]

\* readMpsFile: a file that does not open leaves everything as it is;
\* otherwise commands_ is cleared, the loop runs over the lines and
\* calcPacketLength follows. A setter that throws or ends the process
\* leaves the members as they are at that point. The owner calls it after
\* construction and may call it again once it has returned.
ReadMpsFile ==
    /\ owner_pc.pc \in {"constructed", "idle"}
    /\ IF ~mps_file_.is_open
       THEN /\ owner_pc' = Idle
            /\ UNCHANGED <<commands_, gate_start_, gate_end_, framing, ltpa_data_>>
       ELSE \E h \in { readMpsFileLoop(mps_file_.lines, MembersAtOpen, u) : u \in UbOutcomes } :
                LET c == calcPacketLength(h.dof_, h.ascan_length_, h.num_a_scans_,
                                          individual_ascan_obs_length_)
                IN  /\ commands_' = h.commands_
                    /\ dof_' = h.dof_
                    /\ gate_start_' = h.gate_start_
                    /\ gate_end_' = h.gate_end_
                    /\ ascan_length_' = h.ascan_length_
                    /\ num_a_scans_' = h.num_a_scans_
                    /\ ltpa_data_' = h.ltpa_data_
                    /\ IF h.status = "ok"
                       THEN /\ individual_ascan_obs_length_' = c.individual_ascan_obs_length
                            /\ packet_length_' = c.packet_length
                            /\ owner_pc' = Idle
                       ELSE /\ UNCHANGED <<individual_ascan_obs_length_, packet_length_>>
                            /\ owner_pc' = [pc |-> h.status, cb |-> "null"]
    /\ UNCHANGED <<mps_file_, digitisation_rate, attempts, tx, read_buffer_, handled,
                   ready_buffer_, data_ready_, acquiring_, data_ready_cb_,
                   io_pc, io_cur, consumer_pc, transport, network, used>>

\* The handler after construction and setup(): the int members the
\* constructor does not initialise hold indeterminate values, ltpa_data_ is
\* value-initialised. The members readMpsFile reads before it has written
\* them vary independently; those it only writes start with the value of
\* individual_ascan_obs_length_.
ConfigInit ==
    /\ mps_file_ \in Files
    /\ commands_ = <<>>
    /\ dof_ \in Indeterminate
    /\ ascan_length_ \in Indeterminate
    /\ num_a_scans_ \in Indeterminate
    /\ individual_ascan_obs_length_ \in Indeterminate
    /\ packet_length_ = individual_ascan_obs_length_
    /\ gate_start_ = packet_length_
    /\ gate_end_ = packet_length_
    /\ ltpa_data_ = OutputFormat(0, 0, 0, 0, <<>>, 0)
    /\ digitisation_rate = 0
    /\ attempts = 0
    /\ tx = <<>>
    /\ read_buffer_ = <<>>
    /\ handled = <<>>
    /\ owner_pc = [pc |-> "constructed", cb |-> "null"]
    /\ EngineInit

ConfigNext == ReadMpsFile

ConfigSpec == ConfigInit /\ [][ConfigNext]_vars

\* ------------------------------------------------------------------------
\* The session: sendReset and sendMpsConfiguration against the instrument
\* ------------------------------------------------------------------------

CR == "\r"
LF == "\n"

\* sendCommand(command): ltpa_client_.send(command + "\r\n"), the characters
\* put on the connection.
sendCommand(command) == command \o <<CR, LF>>

\* sendMpsConfiguration that ends each command with a line feed only.
RECURSIVE sendMpsConfigurationLfOnly(_)
sendMpsConfigurationLfOnly(commands) ==
    IF commands = <<>>
    THEN <<>>
    ELSE (Head(commands) \o <<LF>>) \o sendMpsConfigurationLfOnly(Tail(commands))

\* sendMpsConfiguration: for (auto command : commands_) sendCommand(command).
RECURSIVE sendMpsConfiguration(_)
sendMpsConfiguration(commands) ==
    IF commands = <<>>
    THEN <<>>
    ELSE sendCommand(Head(commands)) \o sendMpsConfiguration(Tail(commands))

\* The rates sendReset is called with: those it accepts and one it does not.
ValidRates == {0, 10, 25, 50, 100}
Rates == ValidRates \cup {7}

\* The owner calls sendReset(rate): int attempts(0).
SendResetCall(rate) ==
    /\ owner_pc.pc = "connected"
    /\ digitisation_rate' = rate
    /\ attempts' = 0
    /\ owner_pc' = [pc |-> "reset_loop", cb |-> "null"]
    /\ UNCHANGED <<mps_file_, commands_, gate_start_, gate_end_, tx, read_buffer_, handled,
                   framing, handler, io_pc, io_cur, consumer_pc, transport, network, used>>

\* The loop of sendReset with while (attempts < max_attempts and not success).
ResetAttemptOneFewer ==
    /\ owner_pc.pc = "reset_loop"
    /\ IF attempts < max_attempts
       THEN IF digitisation_rate \in ValidRates
            THEN /\ tx' = tx \o sendCommand(RstCommand(digitisation_rate))
                 /\ owner_pc' = [owner_pc EXCEPT !.pc = "reset_recv"]
            ELSE /\ owner_pc' = [owner_pc EXCEPT !.pc = "exited"]
                 /\ UNCHANGED tx
       ELSE /\ owner_pc' = [owner_pc EXCEPT !.pc = "exited"]
            /\ UNCHANGED tx
    /\ UNCHANGED <<mps_file_, commands_, gate_start_, gate_end_, digitisation_rate, attempts,
                   read_buffer_, handled, framing, handler, io_pc, io_cur, consumer_pc,
                   transport, network, used>>

\* while (attempts <= max_attempts and not success): the command for the
\* rate is sent, or exit(0) for a rate that is none of 0, 10, 25, 50, 100.
\* After the loop: if (attempts > max_attempts and not success) exit(0).
ResetAttempt ==
    /\ owner_pc.pc = "reset_loop"
    /\ IF attempts <= max_attempts
       THEN IF digitisation_rate \in ValidRates
            THEN /\ tx' = tx \o sendCommand(RstCommand(digitisation_rate))
                 /\ owner_pc' = [owner_pc EXCEPT !.pc = "reset_recv"]
            ELSE /\ owner_pc' = [owner_pc EXCEPT !.pc = "exited"]
                 /\ UNCHANGED tx
       ELSE /\ owner_pc' = [owner_pc EXCEPT !.pc = "exited"]
            /\ UNCHANGED tx
    /\ UNCHANGED <<mps_file_, commands_, gate_start_, gate_end_, digitisation_rate, attempts,
                   read_buffer_, handled, framing, handler, io_pc, io_cur, consumer_pc,
                   transport, network, used>>

\* response = receive(32): a first byte '#' is success, the actual
\* digitisation rate (response[9]) is stored and the loop ends; anything
\* else is a failed attempt.
ResetReceive ==
    /\ owner_pc.pc = "reset_recv"
    /\ Len(rxbuf) >= ResetResponseLen
    /\ rxbuf' = SubSeq(rxbuf, ResetResponseLen + 1, Len(rxbuf))
    /\ IF ByteAt(rxbuf, 0) = ResetSuccess
       THEN /\ ltpa_data_' = [ltpa_data_ EXCEPT !.digitisation_rate = ByteAt(rxbuf, 9)]
            /\ owner_pc' = [owner_pc EXCEPT !.pc = "reset_done"]
            /\ UNCHANGED attempts
       ELSE /\ attempts' = attempts + 1
            /\ owner_pc' = [owner_pc EXCEPT !.pc = "reset_loop"]
            /\ UNCHANGED ltpa_data_
    /\ UNCHANGED <<mps_file_, commands_, gate_start_, gate_end_, digitisation_rate,
                   tx, read_buffer_, handled, framing, ready_buffer_, data_ready_, acquiring_,
                   data_ready_cb_, io_pc, io_cur, consumer_pc, io_running, rx_ops, handlers,
                   network, used>>

\* The owner calls sendMpsConfiguration: every command of commands_ is sent.
SendMpsConfiguration ==
    /\ owner_pc.pc = "reset_done"
    /\ tx' = tx \o sendMpsConfiguration(commands_)
    /\ owner_pc' = Idle
    /\ UNCHANGED <<mps_file_, commands_, gate_start_, gate_end_, digitisation_rate, attempts,
                   read_buffer_, handled, framing, handler, io_pc, io_cur, consumer_pc,
                   transport, network, used>>

\* buildResetResponse: 32 bytes, '#' first, then system type, format code
\* and digitisation rates at their places.
buildResetResponse ==
    [i \in 1..ResetResponseLen |->
        IF i = 1 THEN ResetSuccess
        ELSE IF i = 5 THEN system_type
        ELSE IF i \in {8, 11} THEN config_.dof
        ELSE IF i = 9 THEN default_dig_rate
        ELSE IF i = 10 THEN actual_dig_rate
        ELSE 0]

\* The responses to RST: that of buildResetResponse, and that of an
\* instrument that failed to reset (its first byte is not '#').
ResetResponses == {buildResetResponse, [buildResetResponse EXCEPT ![1] = 0]}

\* doReadByte: the next character is appended to read_buffer_; when the
\* buffer ends with CR LF the command before them is handled and the buffer
\* cleared. handleCommand: RST is answered with a reset response, CALS is
\* counted as a pending request, any other line is absorbed.
DoReadByte ==
    /\ tx # <<>>
    /\ tx' = Tail(tx)
    /\ LET buffer == Append(read_buffer_, Head(tx))
           n == Len(buffer)
           cmd == SubSeq(buffer, 1, n - 2)
       IN  IF n >= 2 /\ buffer[n - 1] = CR /\ buffer[n] = LF
           THEN /\ read_buffer_' = <<>>
                /\ handled' = Append(handled, cmd)
                /\ IF StartsWith(cmd, <<"R", "S", "T">>)
                   THEN \E response \in ResetResponses :
                            /\ wire' = Append(wire, response)
                            /\ used' = [used EXCEPT !.bad_resets =
                                            IF response = buildResetResponse THEN @ ELSE @ + 1]
                            /\ UNCHANGED <<pending_cals_count_, timer_armed>>
                   ELSE IF StartsWith(cmd, <<"C", "A", "L", "S">>)
                   THEN /\ pending_cals_count_' = pending_cals_count_ + 1
                        /\ timer_armed' = IF pending_cals_count_ + 1 = 1 THEN TRUE ELSE timer_armed
                        /\ UNCHANGED <<wire, used>>
                   ELSE UNCHANGED <<wire, pending_cals_count_, timer_armed, used>>
           ELSE /\ read_buffer_' = buffer
                /\ UNCHANGED <<handled, wire, pending_cals_count_, timer_armed, used>>
    /\ UNCHANGED <<mps_file_, commands_, gate_start_, gate_end_, digitisation_rate, attempts,
                   framing, handler, threads, transport, cmd_wire>>

\* The lines of the files of a session: the three directives, a blank line
\* and a line no setter recognises.
SessionLines ==
    { KeywordDof \o <<" ", "4">>,
      KeywordGats \o <<" ", "1", " ", "0", " ", "2">>,
      KeywordSwp \o <<" ", "1", " ", "1", " ", "-", " ", "2">>,
      <<>>,
      <<"T", "X", "F">> }

\* The files of a session: at most MaxSessionLines lines.
SessionFiles ==
    { [is_open |-> TRUE, lines |-> l] :
          l \in UNION { [1..k -> SessionLines] : k \in 0..MaxSessionLines } }

\* The members after readMpsFile has read file f into a handler whose
\* uninitialised members held 0.
MembersAfterRead(f) ==
    readMpsFileLoop(f.lines,
                    [commands_ |-> <<>>, dof_ |-> 0, gate_start_ |-> 0, gate_end_ |-> 0,
                     ascan_length_ |-> 0, num_a_scans_ |-> 0,
                     ltpa_data_ |-> OutputFormat(0, 0, 0, 0, <<>>, 0), status |-> "ok"],
                    [status |-> "threw", value |-> 0])

\* The handler after construction, setup, a readMpsFile that returned, and
\* connect.
SessionInit ==
    /\ \E f \in SessionFiles :
          \E h \in { MembersAfterRead(f) } :
              /\ h.status = "ok"
              /\ mps_file_ = f
              /\ commands_ = h.commands_
              /\ gate_start_ = h.gate_start_
              /\ gate_end_ = h.gate_end_
              /\ dof_ = h.dof_
              /\ ascan_length_ = h.ascan_length_
              /\ num_a_scans_ = h.num_a_scans_
              /\ individual_ascan_obs_length_ =
                     calcPacketLength(h.dof_, h.ascan_length_, h.num_a_scans_, 0).individual_ascan_obs_length
              /\ packet_length_ =
                     calcPacketLength(h.dof_, h.ascan_length_, h.num_a_scans_, 0).packet_length
              /\ ltpa_data_ = h.ltpa_data_
    /\ digitisation_rate = 0
    /\ attempts = 0
    /\ tx = <<>>
    /\ read_buffer_ = <<>>
    /\ handled = <<>>
    /\ owner_pc = [pc |-> "connected", cb |-> "null"]
    /\ EngineInit

SessionNext ==
    \/ \E rate \in Rates : SendResetCall(rate)
    \/ ResetAttempt
    \/ ResetReceive
    \/ SendMpsConfiguration
    \/ DoReadByte
    \/ Deliver

SessionSpec == SessionInit /\ [][SessionNext]_vars

\* ------------------------------------------------------------------------
\* The lifetime of a handler: construction, acquisition, destruction
\* ------------------------------------------------------------------------

\* The owner starts the acquisition and destroys the handler, at any moment
\* of the acquisition; the I/O thread and the instrument run as in Spec. The
\* consumers have let go of the handler before it is destroyed and are left
\* out.
LifetimeNext ==
    \/ \E cb \in Callbacks : StartCall(cb)
    \/ StartCheck
    \/ StartFlags
    \/ StartRequest
    \/ DestroyCall
    \/ DestroyCancel
    \/ DestroyJoin
    \/ RxComplete
    \/ OnReceiveComplete
    \/ OnReceiveCallback
    \/ OnReceiveRearmTest
    \/ OnReceiveRequest
    \/ HandleCommandCals
    \/ \E p \in Packets, split \in BOOLEAN : SendQueuedResponse(p, split)
    \/ Deliver

LifetimeSpec == Init /\ [][LifetimeNext]_vars

\* ------------------------------------------------------------------------
\* The instrument at work
\* ------------------------------------------------------------------------

\* The instrument serves a handler that acquires asynchronously and, next to
\* that, requests frames synchronously, so that a second CALS 1 can arrive
\* before the first is answered. Nobody stops the acquisition and nobody
\* polls the slot.
InstrumentNext ==
    \/ \E cb \in Callbacks : StartCall(cb)
    \/ StartCheck
    \/ StartFlags
    \/ StartRequest
    \/ SyncSend
    \/ SyncReceive
    \/ SyncReturn
    \/ RxComplete
    \/ OnReceiveComplete
    \/ OnReceiveCallback
    \/ OnReceiveRearmTest
    \/ OnReceiveRequest
    \/ HandleCommandCals
    \/ \E p \in Packets, split \in BOOLEAN : SendQueuedResponse(p, split)
    \/ Deliver

\* The instrument's I/O thread runs io_context_.run() for as long as the
\* instrument is running: a command that has arrived is handled and a
\* response timer that is armed expires and runs its handler.
InstrumentFairness ==
    /\ WF_vars(HandleCommandCals)
    /\ WF_vars(\E p \in Packets, split \in BOOLEAN : SendQueuedResponse(p, split))

InstrumentSpec == Init /\ [][InstrumentNext]_vars /\ InstrumentFairness

\* ------------------------------------------------------------------------
\* Steps the properties speak of
\* ------------------------------------------------------------------------

\* getLatestData of consumer c returns true, handing out ready_buffer_.
TakesFrame(c) == consumer_pc[c] = "copy" /\ consumer_pc'[c] = "idle"

\* onReceiveComplete publishes what it parsed from a received packet.
Publishes == io_pc = "idle" /\ io_pc' = "callback"

\* onReceiveComplete invokes the registered callback.
InvokesCallback == io_pc = "callback" /\ io_pc' = "rearm" /\ data_ready_cb_ # "null"

\* A step of a completion handler whose receive was armed in an acquisition
\* cycle that has been stopped since.
StaleCompletionStep ==
    /\ io_pc' # io_pc
    /\ IF io_pc = "idle" THEN handlers # <<>> /\ Head(handlers).stale ELSE io_cur.stale

\* onReceiveComplete begins on a receive of the running cycle that completed
\* with a transport error, a callback being registered.
ErrorCompletionStep ==
    /\ io_pc = "idle"
    /\ io_pc' # io_pc
    /\ handlers # <<>>
    /\ Head(handlers).ec
    /\ ~Head(handlers).stale
    /\ data_ready_cb_ # "null"

\* sendDataRequest has read a packet and parses it.
SyncParseStep == owner_pc.pc = "sync_recv" /\ owner_pc' # owner_pc

\* The packet sendDataRequest parses in that step.
SyncPacket == SubSeq(rxbuf, 1, packet_length_)

\* Sub-frame k (from 0) of a packet: individual_ascan_obs_length_ bytes.
SubFrame(response, k) ==
    SubSeq(response, k * individual_ascan_obs_length_ + 1,
           (k + 1) * individual_ascan_obs_length_)

\* The validation rule of parseResponse, stated on the bytes: each of the
\* num_a_scans_ consecutive sub-frames has marker 0x1A, the configured format
\* code in its header and the per-sub-frame length as its header count.
PassesValidation(response) ==
    \A k \in 0..(num_a_scans_ - 1) :
        LET f == SubFrame(response, k)
        IN  /\ f[1] = MarkerAscan
            /\ f[7] = dof_
            /\ f[2] + 256 * f[3] + 65536 * f[4] = individual_ascan_obs_length_

\* readMpsFile has returned from reading a file it could open.
ReadReturned == owner_pc = Idle /\ mps_file_.is_open

\* The line is a directive: its first token is the keyword.
IsDirective(line, keyword) ==
    LET args == processMpsLine(line) IN args # <<>> /\ args[1] = keyword

HasDirective(lines, keyword) == \E i \in 1..Len(lines) : IsDirective(lines[i], keyword)

\* The tokens of the last directive with the keyword.
LastDirective(lines, keyword) ==
    LET last == CHOOSE i \in 1..Len(lines) :
                    /\ IsDirective(lines[i], keyword)
                    /\ \A j \in (i + 1)..Len(lines) : ~IsDirective(lines[j], keyword)
    IN  processMpsLine(lines[last])

NonEmpty(line) == line # <<>>

\* The commands in a stretch of characters on their way to the instrument,
\* buffer being what the instrument has read of the first one.
RECURSIVE CommandsIn(_, _)
CommandsIn(chars, buffer) ==
    IF chars = <<>>
    THEN <<>>
    ELSE LET b == Append(buffer, Head(chars))
             n == Len(b)
         IN  IF n >= 2 /\ b[n - 1] = CR /\ b[n] = LF
             THEN <<SubSeq(b, 1, n - 2)>> \o CommandsIn(Tail(chars), <<>>)
             ELSE CommandsIn(Tail(chars), b)

\* Every command the handler has sent: those the instrument has handled and
\* those still on their way.
CommandsSent == handled \o CommandsIn(tx, read_buffer_)

\* The number of RST commands among them.
RstSent ==
    Cardinality({ i \in 1..Len(CommandsSent) : StartsWith(CommandsSent[i], <<"R", "S", "T">>) })

\* readMpsFile, called on a file it can open, returns.
ReadStep ==
    /\ owner_pc.pc \in {"constructed", "idle"}
    /\ mps_file_.is_open
    /\ owner_pc' = Idle

\* The tokens of a directive (from 1) its setter converts with std::stoi.
NumericArgs(keyword) ==
    IF keyword = KeywordDof THEN {2}
    ELSE IF keyword = KeywordGats THEN {3, 4}
    ELSE {3, 5}

\* The line is a directive one of whose numeric arguments is missing or is
\* not a number.
Malformed(line) ==
    \E keyword \in {KeywordDof, KeywordGats, KeywordSwp} :
        /\ IsDirective(line, keyword)
        /\ \E i \in NumericArgs(keyword) :
               LET args == processMpsLine(line)
               IN  i > Len(args) \/ ~stoi(args[i]).ok


\* A step of stopAsyncAcquisition called while no acquisition is running.
RepeatedStopStep ==
    /\ ~acquiring_
    /\ ~io_running
    /\ owner_pc' # owner_pc
    /\ \/ owner_pc.pc = "idle" /\ owner_pc'.pc = "stop_cancel"
       \/ owner_pc.pc \in {"stop_cancel", "stop_join"}

\* ------------------------------------------------------------------------
\* Properties
\* ------------------------------------------------------------------------

\* C1: each publication lets at most one getLatestData return true: a call
\* that returns true finds the freshness flag still set when it copies the
\* frame and clears the flag, so no second consumer returns true for a
\* publication another consumer has taken.
C1_TakeFindsFlagSet ==
    [][\A c \in Consumers : TakesFrame(c) => data_ready_]_vars

\* C2: in async mode a packet that fails validation leaves the publish slot
\* and the freshness flag as they were.
C2_InvalidPacketLeavesSlot ==
    [][(Publishes /\ ~io_cur'.valid)
          => (ready_buffer_' = ready_buffer_ /\ data_ready_' = data_ready_)]_vars

\* C3: during async acquisition every frame a getLatestData call hands out
\* with true has exactly num_a_scans sub-frames.
C3_TakenFrameComplete ==
    [][\A c \in Consumers :
          (acquiring_ /\ TakesFrame(c)) => Len(ready_buffer_.ascans) = num_a_scans_]_vars

\* C4: once stopAsyncAcquisition has returned, no completion of the stopped
\* cycle invokes the data-ready callback.
C4_NoCallbackForStoppedCycle ==
    [][~(InvokesCallback /\ io_cur.stale)]_vars

\* C5: a completion armed in an earlier acquisition cycle and delivered
\* after a later start exits silently: it writes neither the publish slot
\* nor the flag, invokes no callback, sends no CALS 1 and arms no receive.
C5_StaleCompletionSilent ==
    [][StaleCompletionStep
          => /\ ready_buffer_' = ready_buffer_
             /\ data_ready_' = data_ready_
             /\ cmd_wire' = cmd_wire
             /\ rx_ops' = rx_ops
             /\ ~InvokesCallback]_vars

\* C6: whatever the moments at which earlier cycles were stopped, every
\* receive that completes holds exactly one whole packet of the instrument.
C6_ReceiveHoldsWholePacket ==
    \A i \in 1..Len(handlers) : ~handlers[i].ec => handlers[i].data \in Packets

\* C7: while acquisition stays started and the instrument answers every
\* CALS 1 with one valid packet, the callback is invoked with true again and
\* again and never with false. Stated here is the half a finite run decides:
\* with acquisition started and only valid packets sent so far, the callback
\* about to be invoked is invoked with true.
C7_NeverInvalidFromValidPackets ==
    (acquiring_ /\ used.faults = 0 /\ io_pc = "callback" /\ data_ready_cb_ # "null")
        => io_cur.valid

\* C8: startAsyncAcquisition called while acquisition is running returns
\* without replacing the callback, without touching the publish slot and its
\* flag, without sending CALS 1 and without arming a receive.
C8_StartWhileRunningNoOp ==
    [][(owner_pc.pc = "start" /\ acquiring_ /\ owner_pc' # owner_pc)
          => /\ owner_pc'.pc = "idle"
             /\ UNCHANGED <<handler, cmd_wire, rx_ops, io_running>>]_vars

\* startAsyncAcquisition is called with a callback other than the registered
\* one while acquisition is running and a fresh frame is in the slot.
C8_Witness ==
    /\ owner_pc.pc = "start"
    /\ acquiring_
    /\ owner_pc.cb # data_ready_cb_
    /\ data_ready_

\* C9: sendDataRequest called while async acquisition is running is
\* rejected: it sends no CALS 1 and reads nothing.
C9_SyncRejectedWhileAsync ==
    [][acquiring_ => ~SyncSend]_vars

\* C10: stopAsyncAcquisition called when no acquisition is running leaves
\* the handler not acquiring and the publish slot and its flag unchanged.
C10_StopIdempotent ==
    [][RepeatedStopStep => (~acquiring_' /\ ~io_running' /\ UNCHANGED handler)]_vars

\* A second stopAsyncAcquisition in a row is under way while a fresh frame
\* published before the first one is still in the slot.
C10_Witness ==
    /\ owner_pc.pc = "stop_join"
    /\ ~io_running
    /\ used.starts > 0
    /\ data_ready_
    /\ Len(ready_buffer_.ascans) = num_a_scans_

\* C11: in async mode a receive that completes with a transport error
\* invokes the data-ready callback with false before the handler decides
\* whether to re-arm.
C11_ErrorCompletionInvokesCallback ==
    [][ErrorCompletionStep => (io_pc' = "callback" /\ ~io_cur'.valid)]_vars

\* C12: in sync mode sendDataRequest overwrites the current frame only when
\* the received packet passes validation; on a packet that fails validation
\* it returns false and the current frame is exactly what it was.
C12_SyncInvalidLeavesFrame ==
    [][(SyncParseStep /\ ~PassesValidation(SyncPacket))
          => (owner_pc' = SyncReturning(FALSE) /\ ltpa_data_' = ltpa_data_)]_vars

\* C14: parseResponse accepts a packet, returning true with num_a_scans
\* sub-frames, exactly when every sub-frame has marker 0x1A, the configured
\* format code and the per-sub-frame length as count; otherwise the result
\* is false.
C14_AcceptsIffWellFormed ==
    [][SyncParseStep
          => IF PassesValidation(SyncPacket)
             THEN /\ owner_pc' = SyncReturning(TRUE)
                  /\ Len(ltpa_data_'.ascans) = num_a_scans_
             ELSE owner_pc' = SyncReturning(FALSE)]_vars

\* C15: for format code 1 or 4 and positive ascan_length and num_a_scans,
\* calcPacketLength sets the per-sub-frame length to 8 + ascan_length x 1
\* (code 1) or 8 + ascan_length x 2 (code 4), and the packet length to
\* num_a_scans times the per-sub-frame length.
C15_PacketLength ==
    (ReadReturned /\ dof_ \in {1, 4} /\ ascan_length_ > 0 /\ num_a_scans_ > 0)
        => /\ individual_ascan_obs_length_ = 8 + ascan_length_ * (IF dof_ = 1 THEN 1 ELSE 2)
           /\ packet_length_ = num_a_scans_ * individual_ascan_obs_length_

\* readMpsFile has returned from a file that sets the 16-bit format, a gate
\* of two samples and two a-scans: 2 x (8 + 2 x 2) bytes a packet.
C15_Witness ==
    /\ ReadReturned
    /\ dof_ = 4
    /\ ascan_length_ = 2
    /\ num_a_scans_ = 2
    /\ packet_length_ = 24

\* C16: a format code outside {1, 4} set by the file is turned into an
\* error at calcPacketLength: readMpsFile does not return with such a format
\* code and a packet length a later acquisition would use.
C16_UnsupportedFormatRejected ==
    ~(ReadReturned /\ HasDirective(mps_file_.lines, KeywordDof) /\ dof_ \notin {1, 4})

\* C17: after readMpsFile on a readable file the command stream holds every
\* line of the file verbatim, in source order.
C17_CommandsAreTheLines ==
    ReadReturned => commands_ = mps_file_.lines

\* readMpsFile has returned from a file of MaxLines lines with a directive
\* and a line no setter recognises.
C17_Witness ==
    /\ ReadReturned
    /\ Len(commands_) = MaxLines
    /\ \E i \in 1..Len(commands_) : commands_[i] = <<"T", "X", "F">>
    /\ \E i \in 1..Len(commands_) : StartsWith(commands_[i], KeywordGats)

\* C18: the command stream has exactly one command per non-empty line of the
\* file: a blank line produces no command.
C18_NoCommandForBlankLine ==
    ReadReturned => commands_ = SelectSeq(mps_file_.lines, NonEmpty)

\* C20: after readMpsFile the framing parameters are those of the last
\* occurrence of each directive: dof_ is the argument of the last DOF line,
\* gate_start_ and gate_end_ the second and third arguments of the last
\* GATS line with ascan_length_ their difference, num_a_scans_ the end_tn -
\* start_tn + 1 of the last SWP line.
C20_LastDirectiveWins ==
    ReadReturned
        => LET lines == mps_file_.lines
               dof == LastDirective(lines, KeywordDof)
               gats == LastDirective(lines, KeywordGats)
               swp == LastDirective(lines, KeywordSwp)
           IN  /\ (HasDirective(lines, KeywordDof) /\ Len(dof) > 1)
                     => dof_ = stoi(dof[2]).value
               /\ HasDirective(lines, KeywordGats)
                     => /\ gate_start_ = stoi(gats[3]).value
                        /\ gate_end_ = stoi(gats[4]).value
                        /\ ascan_length_ = gate_end_ - gate_start_
               /\ HasDirective(lines, KeywordSwp)
                     => num_a_scans_ = stoi(swp[5]).value - stoi(swp[3]).value + 1

\* C13: sendReset with a valid rate sends RST again only after a response
\* whose first byte is not 0x23: the number of RST commands sent is the
\* position of the first successful response, never more than 3, and after 3
\* failed responses the reset ends fatally with no further command sent.
C13_ResetAttempts ==
    digitisation_rate \in ValidRates
        => /\ RstSent <= 3
           /\ RstSent <= used.bad_resets + 1
           /\ owner_pc.pc \in {"reset_done", "idle"} => RstSent = used.bad_resets + 1
           /\ owner_pc.pc = "exited"
                 => (used.bad_resets = 3 /\ RstSent = 3 /\ Len(CommandsSent) = 3)

\* sendReset has ended fatally after three failed responses.
C13_Witness ==
    /\ owner_pc.pc = "exited"
    /\ digitisation_rate \in ValidRates
    /\ used.bad_resets = 3
    /\ attempts = 3

\* C19: sendMpsConfiguration sends each command of the command stream once,
\* in order, each followed by CR LF: once the instrument has read what was
\* sent, the lines it has received after the resets are the command stream.
C19_InstrumentReceivesCommandStream ==
    (owner_pc = Idle /\ tx = <<>>)
        => /\ read_buffer_ = <<>>
           /\ handled = [i \in 1..(used.bad_resets + 1) |-> RstCommand(digitisation_rate)]
                             \o commands_

\* The instrument has read all of a configuration of two different
\* commands, sent after a reset that succeeded at the second attempt.
C19_Witness ==
    /\ owner_pc = Idle
    /\ tx = <<>>
    /\ used.bad_resets = 1
    /\ Len(commands_) = 2
    /\ commands_[1] # commands_[2]

\* C21: a line is a DOF, GATS or SWP directive exactly when its first token
\* is the keyword: reading a file none of whose lines has the keyword as
\* its first token leaves the framing parameters of that keyword as they
\* were, and every line is forwarded.
C21_OnlyFirstTokenIsDirective ==
    [][ReadStep
          => LET lines == mps_file_.lines
             IN  /\ ~HasDirective(lines, KeywordDof) => dof_' = dof_
                 /\ ~HasDirective(lines, KeywordGats)
                       => UNCHANGED <<gate_start_, gate_end_, ascan_length_>>
                 /\ ~HasDirective(lines, KeywordSwp) => num_a_scans_' = num_a_scans_
                 /\ commands_' = lines]_vars

\* C22: readMpsFile reports a configuration error to its caller whenever
\* the file cannot be opened or a directive has a missing or non-numeric
\* argument, and then the command stream is not a partly read one: it is
\* what it was before the call, or empty.
C22_ConfigurationErrorReported ==
    [][(/\ owner_pc.pc = "constructed"
        /\ owner_pc' # owner_pc
        /\ \/ ~mps_file_.is_open
           \/ \E i \in 1..Len(mps_file_.lines) : Malformed(mps_file_.lines[i]))
          => /\ owner_pc'.pc = "threw"
             /\ commands_' \in {commands_, <<>>}]_vars

\* C23: whenever readMpsFile has returned from a file with a GATS and a SWP
\* directive, so that an acquisition can be started, ascan_length_ and
\* num_a_scans_ are positive.
C23_FramingPositive ==
    (/\ ReadReturned
     /\ HasDirective(mps_file_.lines, KeywordGats)
     /\ HasDirective(mps_file_.lines, KeywordSwp))
        => (ascan_length_ > 0 /\ num_a_scans_ > 0)

\* C24: readMpsFile is idempotent: a second call in a row on the same file
\* leaves the command stream, the framing parameters, the gate and the
\* packet length as the first call left them.
C24_ReadIdempotent ==
    [][(ReadStep /\ owner_pc = Idle)
          => UNCHANGED <<commands_, framing, gate_start_, gate_end_, ltpa_data_>>]_vars

\* The sub-frame is an ascan message of the configured framing: marker
\* 0x1A, the configured format code, the per-sub-frame length as count.
WellFormed(f) ==
    /\ f[1] = MarkerAscan
    /\ f[7] = dof_
    /\ f[2] + 256 * f[3] + 65536 * f[4] = individual_ascan_obs_length_

\* The largest magnitude among the samples of the sub-frames of a frame.
MaxMagnitude(ascans) ==
    LET magnitudes == UNION { { Abs(ascans[k].amps[i]) : i \in 1..Len(ascans[k].amps) } :
                                  k \in 1..Len(ascans) }
    IN  CHOOSE m \in magnitudes : \A x \in magnitudes : x <= m

\* C25: for an ascan sub-frame of the configured framing,
\* dataOutpoutFormatReader gives exactly ascan_length samples in payload
\* order, sample i being byte i of the payload - 128 (within -128..127) in
\* format 1 and the little-endian word i of the payload - 32768 (within
\* -32768..32767) in format 4, and 0 for the raw centre value; an accepted
\* packet's frame carries these samples.
C25_SamplesDecoded ==
    [][SyncParseStep
          => \A k \in 0..(num_a_scans_ - 1) :
                 LET f == SubFrame(SyncPacket, k)
                     amps == dataOutpoutFormatReader(f).amps
                     raw(i) == IF dof_ = 1 THEN f[8 + i]
                               ELSE f[8 + 2 * i - 1] + 256 * f[8 + 2 * i]
                     centre == IF dof_ = 1 THEN 128 ELSE 32768
                 IN  WellFormed(f)
                        => /\ Len(amps) = ascan_length_
                           /\ \A i \in 1..ascan_length_ :
                                  /\ amps[i] = raw(i) - centre
                                  /\ amps[i] >= -centre
                                  /\ amps[i] <= centre - 1
                                  /\ raw(i) = centre => amps[i] = 0
                           /\ owner_pc' = SyncReturning(TRUE)
                                  => ltpa_data_'.ascans[k + 1].amps = amps]_vars

\* sendDataRequest has accepted a 16-bit packet whose first sub-frame
\* decodes to the centre value and to a negative sample.
C25_Witness ==
    /\ owner_pc.pc = "sync_true"
    /\ dof_ = 4
    /\ ascan_length_ = 2
    /\ ltpa_data_.ascans[1].amps = <<0, -32767>>

\* C26: a packet in which the instrument encodes the sample value v (byte
\* v + 128 in format 1, the two little-endian bytes of v + 32768 in format
\* 4) is accepted and every sample of its frame is v again.
C26_RoundTrip ==
    [][SyncParseStep
          => \A v \in SampleValues :
                 SyncPacket = SamplePacket(v)
                    => /\ owner_pc' = SyncReturning(TRUE)
                       /\ \A k \in 1..num_a_scans_ :
                              ltpa_data_'.ascans[k].amps = [i \in 1..ascan_length_ |-> v]]_vars

\* sendDataRequest has accepted a 16-bit packet of two sub-frames whose
\* samples are all the lowest value of the format.
C26_Witness ==
    /\ owner_pc.pc = "sync_true"
    /\ dof_ = 4
    /\ num_a_scans_ = 2
    /\ \A k \in 1..2 : ltpa_data_.ascans[k].amps = [i \in 1..ascan_length_ |-> -32768]

\* C27: the max_amplitude of the frame of an accepted packet is the largest
\* |sample| over all samples of all its sub-frames.
C27_MaxAmplitude ==
    owner_pc.pc = "sync_true"
        => ltpa_data_.max_amplitude = MaxMagnitude(ltpa_data_.ascans)

\* sendDataRequest has accepted an 8-bit packet whose extreme sample is
\* negative and lies in the second sub-frame, next to positive samples.
C27_Witness ==
    /\ owner_pc.pc = "sync_true"
    /\ dof_ = 1
    /\ num_a_scans_ = 2
    /\ ascan_length_ = 2
    /\ ltpa_data_.ascans[1].amps = <<0, 1>>
    /\ ltpa_data_.ascans[2].amps = <<7, -128>>
    /\ ltpa_data_.max_amplitude = 128

\* C28: dataOutpoutFormatReader maps the marker of a sub-frame to its kind
\* (0x1A ascan, 0x1C normal indications, 0x1D gain-reduced indications,
\* 0x1E coupling failure, 0x06 and every other value error) and, for ascan
\* and unknown markers, decodes count from bytes 1-3 and the test number
\* from bytes 4-5, both little-endian, the format code from byte 6 and the
\* channel from byte 7; an accepted packet's frame carries these headers.
C28_HeaderDecoded ==
    [][SyncParseStep
          => \A k \in 0..(num_a_scans_ - 1) :
                 LET f == SubFrame(SyncPacket, k)
                     h == dataOutpoutFormatReader(f).header
                 IN  /\ h.header = (IF f[1] = 26 THEN "ascan"
                                    ELSE IF f[1] = 28 THEN "normal_indications"
                                    ELSE IF f[1] = 29 THEN "gain_reduced_indications"
                                    ELSE IF f[1] = 30 THEN "lwl_coupling_failure"
                                    ELSE "error")
                     /\ f[1] \notin {28, 29, 30, 6}
                            => /\ h.count = f[2] + 256 * f[3] + 65536 * f[4]
                               /\ h.testNo = f[5] + 256 * f[6]
                               /\ h.dof = f[7]
                               /\ h.channel = f[8]
                     /\ owner_pc' = SyncReturning(TRUE)
                            => ltpa_data_'.ascans[k + 1].header = h]_vars

\* sendDataRequest has accepted a packet whose first sub-frame carries a
\* test number with both bytes set.
C28_Witness ==
    /\ owner_pc.pc = "sync_true"
    /\ ltpa_data_.ascans[1].header.header = "ascan"
    /\ ltpa_data_.ascans[1].header.testNo = 1 + 256 * 255
    /\ ltpa_data_.ascans[1].header.count = individual_ascan_obs_length_
    /\ ltpa_data_.ascans[1].header.channel = 0

\* C29: the slot is last-writer-wins: the frame a getLatestData call copies
\* when it returns true is the frame onReceiveComplete published last, never
\* something older.
C29_TakenFrameIsLastPublished ==
    [][\A c \in Consumers : TakesFrame(c) => used.published]_vars

\* sendQueuedResponse answers the oldest pending request.
AnswersRequest == pending_cals_count_' = pending_cals_count_ - 1

\* What the instrument has put on the wire in this step, the segments
\* joined.
RECURSIVE Joined(_)
Joined(segments) ==
    IF segments = <<>> THEN <<>> ELSE Head(segments) \o Joined(Tail(segments))

\* The fields of a frame that the configuration, not a packet, determines.
StaticMetadata(frame) ==
    [f \in (DOMAIN frame) \ {"ascans", "max_amplitude"} |-> frame[f]]

\* The receives of the running cycle that were posted by initiateAsyncRequest
\* and whose completion onReceiveComplete has not begun to handle: each one
\* stands for one CALS 1 sent and not yet accounted for.
RequestsInFlight ==
    Cardinality({i \in 1..Len(rx_ops) : ~rx_ops[i].stale})
        + Cardinality({i \in 1..Len(handlers) : ~handlers[i].stale})

\* stopAsyncAcquisition has returned and no start has been called since.
Stopped ==
    /\ owner_pc = Idle
    /\ ~acquiring_
    /\ ~io_running
    /\ used.starts > 0

\* C30: once stopAsyncAcquisition has returned with a published frame not
\* yet taken, that frame is collected once: a getLatestData call that finds
\* the flag set returns true with the frame in the slot, which stays as it
\* is, and no call returns true for a frame another call has collected.
C30_LastFrameCollectedOnce ==
    [][Stopped
          => /\ UNCHANGED ready_buffer_
             /\ \A c \in Consumers :
                    /\ (consumer_pc[c] = "idle" /\ consumer_pc'[c] # "idle") => data_ready_
                    /\ TakesFrame(c) => data_ready_]_vars

\* C31: each synchronous sendDataRequest sends exactly one CALS 1 and reads
\* exactly packet_length_ bytes: while a request is under way, the requests
\* not yet answered and the response bytes not yet read amount to one
\* packet, and once it has returned the instrument has no request left to
\* answer and no response byte is left unread on the connection.
C31_OneRequestOnePacket ==
    /\ owner_pc.pc = "sync_recv"
          => (cmd_wire + pending_cals_count_) * packet_length_ + TotalLen(wire) + Len(rxbuf)
                 = packet_length_
    /\ owner_pc.pc \in {"idle", "sync_true", "sync_false"}
          => (cmd_wire = 0 /\ pending_cals_count_ = 0 /\ wire = <<>> /\ rxbuf = <<>>)

\* A synchronous request has returned true with the frame of the
\* instrument's packet after an earlier request was answered with another
\* packet, and nothing is left on the connection.
C31_Witness ==
    /\ owner_pc.pc = "sync_true"
    /\ used.faults = 1
    /\ ltpa_data_.ascans = parseResponse(buildDataPacket, ltpa_data_).output.ascans
    /\ rxbuf = <<>>
    /\ ~timer_armed

\* C32: destroying the handler while the asynchronous acquisition is running
\* stops the acquisition first: once the destructor has run, acquiring_ is
\* false, the I/O thread is not running, and no receive completion of the
\* handler publishes a frame or invokes the callback.
C32_DestructorStopsAcquisition ==
    [][owner_pc.pc = "destroyed"
          => /\ ~acquiring_ /\ ~acquiring_'
             /\ ~io_running
             /\ ~Publishes
             /\ ~InvokesCallback
             /\ io_pc' = io_pc]_vars

\* The handler was destroyed in the middle of an acquisition that had
\* published a frame: a request was on its way to the instrument when the
\* destructor returned.
C32_Witness ==
    /\ owner_pc.pc = "destroyed"
    /\ used.published
    /\ data_ready_cb_ = "cb"
    /\ cmd_wire + pending_cals_count_ > 0

\* C33: a receive completion re-arms only if the acquisition is still running
\* when the completion finishes: once stopAsyncAcquisition has cleared
\* acquiring_, no completion of the stopped cycle sends another CALS 1.
C33_NoRearmAfterStop ==
    [][(io_pc = "request" /\ io_pc' = "idle" /\ cmd_wire' = sendCommandCals(cmd_wire))
          => acquiring_]_vars

\* C34: dataOutpoutFormatReader never reads a byte outside the slice it is
\* given, whatever the count and the format code in the sub-frame header
\* (a count larger than the slice, an odd payload in the 16-bit format): no
\* slice that parseResponse decodes makes the reader index past its end.
C34_ReaderStaysInSlice ==
    [][SyncParseStep => ~parseResponse(SyncPacket, ltpa_data_).oob]_vars

\* C35: within one asynchronous cycle at most one request is in flight: the
\* CALS 1 sent minus the receive completions handled is 0 or 1, and at most
\* one asynchronous receive is outstanding on the connection.
C35_OneRequestInFlight ==
    acquiring_ => (RequestsInFlight <= 1 /\ Len(rx_ops) <= 1)

\* C36: startAsyncAcquisition from idle resets the publish slot to not fresh
\* with the static metadata: from the moment the slot holds the copy of
\* ltpa_data_ until a receive completion publishes, no getLatestData call
\* finds the flag set, even if a frame of the cycle before was never taken.
C36_SlotResetNotFresh ==
    [][\A c \in Consumers :
           (consumer_pc[c] = "idle" /\ consumer_pc'[c] = "copy") => used.published]_vars

\* C37: for each packet received in asynchronous mode the frame is stored in
\* the slot and marked fresh before the callback is invoked, and the callback
\* is invoked exactly once per error-free receive completion, with the
\* validation result: a completion without error stores what parseResponse
\* made of its packet, sets data_ready_ and only then reaches the callback
\* with the value parseResponse returned; a completion with an error reaches
\* no callback; the callback is reached from nowhere else and left only by
\* its invocation, after which the handler re-arms.
C37_StoredFreshThenCallbackOnce ==
    [][/\ (io_pc = "idle" /\ io_pc' # "idle")
             => LET h == Head(handlers)
                    r == parseResponse(h.data, ltpa_data_)
                IN  IF h.ec
                    THEN io_pc' = "rearm" /\ UNCHANGED <<ready_buffer_, data_ready_>>
                    ELSE /\ io_pc' = "callback"
                         /\ ready_buffer_' = r.output
                         /\ data_ready_'
                         /\ io_cur'.valid = r.valid
       /\ (io_pc # "callback" /\ io_pc' = "callback") => Publishes
       /\ (io_pc = "callback" /\ io_pc' # "callback")
             => (io_pc' = "rearm" /\ (data_ready_cb_ # "null" => InvokesCallback))
       /\ (io_pc = "callback" /\ io_pc' = "callback") => UNCHANGED <<io_cur, ready_buffer_>>]_vars

\* The callback has been invoked with false for an error message of the
\* instrument, whose frame is in the slot, fresh and not yet taken.
C37_Witness ==
    /\ io_pc = "rearm"
    /\ ~io_cur.ec
    /\ ~io_cur.valid
    /\ data_ready_cb_ = "cb"
    /\ data_ready_
    /\ ready_buffer_.ascans = <<>>
    /\ used.faults = 1

\* C38: a successful parseResponse changes only ascans and max_amplitude of
\* the frame it fills: digitisation_rate, ascan_length, num_a_scans and the
\* geometry are the same before and after, in ltpa_data_ for a synchronous
\* request and in the frame published from the copy of ltpa_data_ for an
\* asynchronous one.
C38_SuccessKeepsStaticMetadata ==
    [][/\ (SyncParseStep /\ owner_pc'.pc = "sync_true")
             => /\ StaticMetadata(ltpa_data_') = StaticMetadata(ltpa_data_)
                /\ DOMAIN ltpa_data_' = DOMAIN ltpa_data_
       /\ (Publishes /\ io_cur'.valid)
             => /\ StaticMetadata(ready_buffer_') = StaticMetadata(ltpa_data_)
                /\ DOMAIN ready_buffer_' = DOMAIN ltpa_data_
                /\ UNCHANGED ltpa_data_]_vars

\* A synchronous request has filled ltpa_data_ and, later, a completion of
\* the asynchronous acquisition has published a valid frame: both frames
\* carry sub-frames and the configured metadata.
C38_Witness ==
    /\ io_pc = "callback"
    /\ io_cur.valid
    /\ Len(ready_buffer_.ascans) = num_a_scans_
    /\ Len(ltpa_data_.ascans) = num_a_scans_
    /\ ready_buffer_.num_a_scans = num_a_scans_
    /\ ltpa_data_.n_elements = 128

\* C39: the instrument answers every CALS command it receives with exactly
\* one data packet, in arrival order, also when several arrive before the
\* first answer: the pending-request counter is never negative and a
\* response is scheduled whenever it is positive; the counter goes up by one
\* for each command received and down by one for each packet sent, a packet
\* being sent only for a pending request and appended whole to what was sent
\* before (so the packets sent never exceed the commands received); and,
\* the instrument running, every request is answered in the end: always
\* again nothing is pending or a packet is sent.
C39_EveryCalsAnsweredOnce ==
    /\ [](pending_cals_count_ >= 0 /\ (pending_cals_count_ > 0 => timer_armed))
    /\ [][/\ (pending_cals_count_' > pending_cals_count_)
                => (pending_cals_count_' = pending_cals_count_ + 1
                       /\ cmd_wire' = cmd_wire - 1 /\ UNCHANGED wire)
          /\ (pending_cals_count_' < pending_cals_count_)
                => (AnswersRequest /\ UNCHANGED cmd_wire
                       /\ Len(wire') > Len(wire)
                       /\ SubSeq(wire', 1, Len(wire)) = wire
                       /\ Len(Joined(SubSeq(wire', Len(wire) + 1, Len(wire'))))
                              = packet_length_)
          /\ (Len(wire') > Len(wire)) => AnswersRequest]_vars
    /\ ([]<>(pending_cals_count_ = 0) \/ []<><<AnswersRequest>>_vars)

\* Two requests are pending at the instrument, none of them answered yet.
C39_Witness ==
    /\ pending_cals_count_ = 2
    /\ timer_armed
    /\ wire = <<>>
    /\ rxbuf = <<>>
    /\ acquiring_

====
